---------------------------- MODULE Spec2Model ----------------------------
(***************************************************************************)
(* A model of scripts/build-plugin.py of TunnelFin: the release manifest   *)
(* store (update_manifest), the version resolver (parse_version,           *)
(* get_next_version), the CDN propagation verifier (wait_for_cdn_update),  *)
(* the Jellyfin client's convergence polls, the deployment sequencers      *)
(* (main, deploy_local, deploy_via_repo, and main of scripts/deploy.py up  *)
(* to its authentication), ensure_repository, the plugin lookups           *)
(* (find_tunnelfin_plugin, and the selection of the E2E suite's            *)
(* test_plugin_installed), the manifest update of scripts/deploy.py, the   *)
(* deployer's session (authenticate, re_authenticate) and the outcome of   *)
(* the E2E suite (run_all_tests and main of jellyfin_e2e_test.py).         *)
(*                                                                         *)
(* Each part has a specification of its own (SpecManifest,                 *)
(* SpecManifestShapes, SpecScript, SpecVersion, SpecCdn, SpecPoll,         *)
(* SpecPollLive, SpecConverge, SpecDeploy, SpecRepo, SpecLookup,           *)
(* SpecSession, SpecSuite); the variables of the other parts stay at       *)
(* their idle values.                                                      *)
(***************************************************************************)
EXTENDS Integers, Sequences, FiniteSets, TLC

VARIABLES
    \* ---- manifest store ----
    manifest,      \* the content of manifest.json: <<channel>>, channel.versions
    mclock,        \* the wall clock read by update_manifest, in seconds
    mlast,         \* the last update_manifest call: its arguments and what it saw
    mprev,         \* the call before it
    \* ---- version resolver ----
    gitTags,       \* the tags `git tag` lists
    releases,      \* the tag names `gh release list` lists
    resolved,      \* the versions get_next_version returned, oldest first
    vlast,         \* the last get_next_version call: what it read and returned
    \* ---- CDN propagation verifier ----
    cpc,           \* where wait_for_cdn_update is
    cnow,          \* time.time() - start, in seconds
    cargs,         \* its arguments: expected_checksum, timeout
    cready,        \* manifest_ready
    cresult,       \* its return value, "none" until it returns
    clog,          \* what it has done: requests made, responses seen
    \* ---- the client's convergence polls ----
    ppc,           \* where the wait_for_* call is
    pnow,          \* time.time() - start, in seconds
    pargs,         \* which poll, and its arguments
    presult,       \* its return value, "True" or "False", "none" until it returns
    plog,          \* the attempts made and the last observation
    \* ---- main, deploy_local, deploy_via_repo ----
    dmode,         \* which deploy runs: "local" (deploy_local), "repo" (deploy_via_repo),
                   \* "script" (main of scripts/deploy.py)
    dpc,           \* where the deploy is
    plugin_id,     \* the local plugin_id of deploy_local
    dchecksum,     \* the local checksum of main, "none" before build_plugin returned
    dtrace,        \* the steps made so far (commands, calls on the deployer), with their results
    dout,          \* what the deploy has printed about its outcome
    \* ---- ensure_repository ----
    repos,         \* the registrations the host holds (GET /Repositories)
    rlast,         \* the last ensure_repository call: what it read and wrote
    rcalls,        \* the number of ensure_repository calls made
    \* ---- the plugin lookups ----
    llast,         \* the last lookup: the list it read and what it selected
    \* ---- the deployer's session ----
    access_token,  \* self.access_token, "None" while none is held
    user_id,       \* self.user_id, "None" while none is held
    session_header,\* self.session.headers["X-Emby-Authorization"], "absent" before it is set
    alast,         \* the last authenticate or re_authenticate call
    \* ---- the E2E suite ----
    epc,           \* where run_all_tests and main are
    enext,         \* the place, in the list of the tests after authentication, of the next one
    enames,        \* the names of self.test_cases, in the order they were added
    elast,         \* self.test_cases[-1].result, "none" while there is no case
    etally,        \* how many cases of self.test_cases have each result
    eresults,      \* the dict run_all_tests returned
    eexit          \* the exit code of the process, "none" while it runs

mvars == <<manifest, mclock, mlast, mprev>>
vvars == <<gitTags, releases, resolved, vlast>>
cvars == <<cpc, cnow, cargs, cready, cresult, clog>>
pvars == <<ppc, pnow, pargs, presult, plog>>
dvars == <<dmode, dpc, plugin_id, dchecksum, dtrace, dout>>
rvars == <<repos, rlast, rcalls>>
lvars == <<llast>>
svars == <<access_token, user_id, session_header, alast>>
evars == <<epc, enext, enames, elast, etally, eresults, eexit>>
vars == <<manifest, mclock, mlast, mprev, gitTags, releases, resolved, vlast,
          cpc, cnow, cargs, cready, cresult, clog,
          ppc, pnow, pargs, presult, plog,
          dmode, dpc, plugin_id, dchecksum, dtrace, dout,
          repos, rlast, rcalls, llast,
          access_token, user_id, session_header, alast,
          epc, enext, enames, elast, etally, eresults, eexit>>

NoCall == [kind |-> "none"]

(***************************************************************************)
(*                         Manifest store                                  *)
(***************************************************************************)

\* Bounds of the manifest model.
MaxInitEntries == 2
MaxClock == 1

VersionStrings == {"2.0.0.5", "2.0.0.4", "2.0.0.05"}
Checksums == {"c1", "c2"}

\* An entry written by an earlier release; its descriptive fields are whatever
\* that release wrote.
OldEntry(v, c) ==
    [version |-> v, changelog |-> "earlier release", targetAbi |-> "10.11.0.0",
     sourceUrl |-> "earlier url", checksum |-> c, timestamp |-> 0]

\* new_entry of update_manifest.
new_entry(version, checksum, timestamp) ==
    [version |-> version,
     changelog |-> "v" \o version \o " - Local build deployment",
     targetAbi |-> "10.11.0.0",
     sourceUrl |-> "https://github.com/jefflouisma/TunnelFin/releases/download/v"
                     \o version \o "/tunnelfin_" \o version \o ".zip",
     checksum |-> checksum,
     timestamp |-> timestamp]

\* The index of the first entry whose version field equals `version` as a
\* string, 0 when there is none: the for loop with its break.
find_entry(versions, version) ==
    IF \E i \in 1..Len(versions) : versions[i].version = version
    THEN CHOOSE i \in 1..Len(versions) :
            /\ versions[i].version = version
            /\ \A j \in 1..(i - 1) : versions[j].version # version
    ELSE 0

\* A list append where the code inserts at index 0.
insert_entry_appends(versions, entry) == versions \o <<entry>>

\* versions.insert(0, new_entry)
insert_entry(versions, entry) == <<entry>> \o versions

\* An upsert that never looks for an existing entry.
upsert_always_inserts(versions, version, checksum, timestamp) ==
    insert_entry(versions, new_entry(version, checksum, timestamp))

\* An upsert that refreshes the timestamp of an existing entry and forgets its
\* checksum.
upsert_keeps_checksum(versions, version, checksum, timestamp) ==
    LET i == find_entry(versions, version) IN
    IF i # 0
    THEN [versions EXCEPT ![i].timestamp = timestamp]
    ELSE insert_entry(versions, new_entry(version, checksum, timestamp))

\* An upsert that moves the entry it refreshed to index 0.
upsert_moves_to_front(versions, version, checksum, timestamp) ==
    LET i == find_entry(versions, version) IN
    IF i # 0
    THEN <<[versions[i] EXCEPT !.checksum = checksum, !.timestamp = timestamp]>>
            \o SubSeq(versions, 1, i - 1) \o SubSeq(versions, i + 1, Len(versions))
    ELSE insert_entry(versions, new_entry(version, checksum, timestamp))

\* The versions list update_manifest writes back.
upsert(versions, version, checksum, timestamp) ==
    LET i == find_entry(versions, version) IN
    IF i # 0
    THEN [versions EXCEPT ![i].checksum = checksum, ![i].timestamp = timestamp]
    ELSE insert_entry(versions, new_entry(version, checksum, timestamp))

\* manifest[0] raises IndexError on an empty list.
has_channel(content) == Len(content) > 0

\* manifest[0].get("versions", []): the list of the channel, and an empty
\* list when the channel has no "versions".
get_versions(channel) ==
    IF "versions" \in DOMAIN channel THEN channel.versions ELSE <<>>

\* manifest[0]["versions"] = versions
set_versions(channel, versions) ==
    IF "versions" \in DOMAIN channel
    THEN [channel EXCEPT !.versions = versions]
    ELSE [f \in DOMAIN channel \cup {"versions"} |->
            IF f = "versions" THEN versions ELSE channel[f]]

\* update_manifest(root_dir, version, checksum): read manifest.json, upsert,
\* write it back.  The clock is read once, at the start.  An exception leaves
\* the call before the file is opened for writing.
update_manifest(version, checksum) ==
    LET raised == ~has_channel(manifest)
        versions == IF raised THEN <<>> ELSE get_versions(manifest[1])
    IN
    /\ mclock' \in {t \in {mclock, mclock + 1} : t <= MaxClock}
    /\ manifest' = IF raised THEN manifest
                   ELSE [manifest EXCEPT
                           ![1] = set_versions(@, upsert(versions, version,
                                                         checksum, mclock'))]
    /\ mprev' = IF mlast.kind = "none" THEN NoCall
                ELSE [kind |-> "update", version |-> mlast.version,
                      checksum |-> mlast.checksum]
    /\ mlast' = [kind |-> "update", version |-> version, checksum |-> checksum,
                 timestamp |-> mclock', before |-> versions,
                 read |-> manifest, raised |-> raised]

UpdateManifest ==
    /\ \E version \in VersionStrings, checksum \in Checksums :
          update_manifest(version, checksum)
    /\ UNCHANGED <<vvars, cvars, pvars, dvars, rvars, lvars, svars, evars>>

Count(versions, version) ==
    Cardinality({i \in 1..Len(versions) : versions[i].version = version})

UniqueVersions(versions) ==
    \A i, j \in 1..Len(versions) :
        versions[i].version = versions[j].version => i = j

\* Every channel of at most MaxInitEntries earlier entries, one per version.
InitChannels ==
    LET Entries == {OldEntry(v, c) : v \in VersionStrings, c \in Checksums} IN
    {s \in UNION {[1..n -> Entries] : n \in 0..MaxInitEntries} : UniqueVersions(s)}

VersionIdle ==
    /\ gitTags = {}
    /\ releases = {}
    /\ resolved = <<>>
    /\ vlast = NoCall

ManifestIdle ==
    /\ manifest = <<[versions |-> <<>>]>>
    /\ mclock = 0
    /\ mlast = NoCall
    /\ mprev = NoCall

CdnIdle ==
    /\ cpc = "idle"
    /\ cnow = 0
    /\ cargs = NoCall
    /\ cready = FALSE
    /\ cresult = "none"
    /\ clog = NoCall

PollIdle ==
    /\ ppc = "idle"
    /\ pnow = 0
    /\ pargs = NoCall
    /\ presult = "none"
    /\ plog = NoCall

DeployIdle ==
    /\ dmode = "none"
    /\ dpc = "idle"
    /\ plugin_id = "None"
    /\ dchecksum = "none"
    /\ dtrace = <<>>
    /\ dout = <<>>

LookupIdle == llast = NoCall

SessionIdle ==
    /\ access_token = "None"
    /\ user_id = "None"
    /\ session_header = "absent"
    /\ alast = NoCall

\* No case has been recorded.
EmptyTally == [PASSED |-> 0, FAILED |-> 0, SKIPPED |-> 0, WARNING |-> 0]

SuiteIdle ==
    /\ epc = "idle"
    /\ enext = 1
    /\ enames = <<>>
    /\ elast = "none"
    /\ etally = EmptyTally
    /\ eresults = NoCall
    /\ eexit = "none"

RepoIdle ==
    /\ repos = <<>>
    /\ rlast = NoCall
    /\ rcalls = 0

InitManifest ==
    /\ \E s \in InitChannels : manifest = <<[versions |-> s]>>
    /\ mclock = 0
    /\ mlast = NoCall
    /\ mprev = NoCall
    /\ VersionIdle
    /\ CdnIdle
    /\ PollIdle
    /\ DeployIdle
    /\ RepoIdle
    /\ LookupIdle
    /\ SessionIdle
    /\ SuiteIdle

NextManifest == UpdateManifest

SpecManifest == InitManifest /\ [][NextManifest]_vars

\* What manifest.json may hold when it is valid JSON of another shape: an
\* empty list, or a list whose first element is a channel without "versions".
OtherShapes == {<<>>, <<[name |-> "TunnelFin"]>>}

\* manifest.json holds a channel as in InitManifest, or has another shape.
InitManifestShapes ==
    /\ \/ \E s \in InitChannels : manifest = <<[versions |-> s]>>
       \/ manifest \in OtherShapes
    /\ mclock = 0
    /\ mlast = NoCall
    /\ mprev = NoCall
    /\ VersionIdle
    /\ CdnIdle
    /\ PollIdle
    /\ DeployIdle
    /\ RepoIdle
    /\ LookupIdle
    /\ SessionIdle
    /\ SuiteIdle

SpecManifestShapes == InitManifestShapes /\ [][NextManifest]_vars

\* ---- the manifest update of deploy.py ----

\* Bound of the deploy.py model: the number of entries of the channel beyond
\* which no further run is made.
MaxScriptEntries == 3

Digits == <<"0", "1", "2", "3", "4", "5", "6", "7", "8", "9">>

\* decimal(n) for a number below 100, as text.
decimal(n) ==
    IF n < 10 THEN Digits[n + 1]
    ELSE Digits[(n \div 10) + 1] \o Digits[(n % 10) + 1]

\* ".".join of the parts before the last one, with the dot that follows
\* them: every version string of the model has these three parts.
Stem == "2.0.0."

\* int(parts[-1]) of current.split("."): the number the last part is the
\* decimal form of, with a leading zero or without.
int_last(version) ==
    CHOOSE n \in 0..99 : version \in {Stem \o decimal(n), Stem \o "0" \o decimal(n)}

\* get_next_version of deploy.py: the version of the first entry with its
\* last part incremented.
deploy_get_next_version(content) ==
    Stem \o decimal(int_last(content[1].versions[1].version) + 1)

\* new_version of deploy.py's update_manifest.
new_version(version, checksum, timestamp) ==
    [version |-> version,
     changelog |-> "v" \o version \o " - Service registration fix",
     targetAbi |-> "10.11.0.0",
     sourceUrl |-> "https://github.com/jefflouisma/TunnelFin/releases/download/v"
                     \o version \o "/tunnelfin_" \o version \o ".zip",
     checksum |-> checksum,
     timestamp |-> timestamp]

\* update_manifest of deploy.py: read manifest.json, insert the new entry at
\* index 0 of the channel, write it back.
deploy_update_manifest(version, checksum) ==
    /\ mclock' \in {t \in {mclock, mclock + 1} : t <= MaxClock}
    /\ manifest' = [manifest EXCEPT
                      ![1].versions = insert_entry(@, new_version(version, checksum, mclock'))]
    /\ mprev' = IF mlast.kind = "none" THEN NoCall
                ELSE [kind |-> mlast.kind, version |-> mlast.version,
                      checksum |-> mlast.checksum]
    /\ mlast' = [kind |-> "deploy", version |-> version, checksum |-> checksum,
                 timestamp |-> mclock', before |-> manifest[1].versions,
                 read |-> manifest, raised |-> FALSE]

\* main of deploy.py with --version: version = args.version.
DeployExplicit ==
    /\ Len(manifest[1].versions) < MaxScriptEntries
    /\ \E version \in VersionStrings, checksum \in Checksums :
          deploy_update_manifest(version, checksum)
    /\ UNCHANGED <<vvars, cvars, pvars, dvars, rvars, lvars, svars, evars>>

\* main of deploy.py without --version: version = get_next_version(
\* manifest_path), which raises IndexError on a channel without entries, before
\* anything is built or written.
DeployAuto ==
    /\ Len(manifest[1].versions) < MaxScriptEntries
    /\ IF manifest[1].versions = <<>>
       THEN /\ mlast' = [kind |-> "deploy", version |-> "none", checksum |-> "none",
                         timestamp |-> mclock, before |-> <<>>,
                         read |-> manifest, raised |-> TRUE]
            /\ mprev' = IF mlast.kind = "none" THEN NoCall
                        ELSE [kind |-> mlast.kind, version |-> mlast.version,
                              checksum |-> mlast.checksum]
            /\ UNCHANGED <<manifest, mclock>>
       ELSE \E checksum \in Checksums :
                deploy_update_manifest(deploy_get_next_version(manifest), checksum)
    /\ UNCHANGED <<vvars, cvars, pvars, dvars, rvars, lvars, svars, evars>>

NextScript == DeployExplicit \/ DeployAuto

SpecScript == InitManifest /\ [][NextScript]_vars

(***************************************************************************)
(*                         Version resolver                                *)
(***************************************************************************)

\* Bound of the resolver model: the number of get_next_version calls.
MaxResolves == 2

\* A tag name is modelled by the number of 'v' characters it starts with and
\* the fields that str.split('.') gives for the rest; a field is a sequence of
\* characters, a decimal digit or the letter "X".
DigitValue ==
    ("0" :> 0) @@ ("1" :> 1) @@ ("2" :> 2) @@ ("3" :> 3) @@ ("4" :> 4) @@
    ("5" :> 5) @@ ("6" :> 6) @@ ("7" :> 7) @@ ("8" :> 8) @@ ("9" :> 9)

DigitChar == <<"0", "1", "2", "3", "4", "5", "6", "7", "8", "9">>

\* int(p) raises ValueError: p is empty or holds a character that is no digit.
raises_ValueError(field) ==
    field = <<>> \/ \E i \in 1..Len(field) : field[i] \notin DOMAIN DigitValue

\* int(p) of a string of decimal digits.
RECURSIVE int(_)
int(field) ==
    IF field = <<>> THEN 0
    ELSE 10 * int(SubSeq(field, 1, Len(field) - 1)) + DigitValue[field[Len(field)]]

\* str(n) of a non-negative integer.
RECURSIVE str(_)
str(n) ==
    IF n < 10 THEN <<DigitChar[n + 1]>>
    ELSE str(n \div 10) \o <<DigitChar[(n % 10) + 1]>>

\* parts[:4]
first4(fields) == SubSeq(fields, 1, IF Len(fields) < 4 THEN Len(fields) ELSE 4)

\* parse_version(version_str): lstrip('v'), split('.'), int of the first four
\* fields; (0, 0, 0, 0) when one of them is no integer.
parse_version(tag) ==
    LET parts == first4(tag.fields) IN
    IF \E i \in 1..Len(parts) : raises_ValueError(parts[i])
    THEN <<0, 0, 0, 0>>
    ELSE [i \in 1..Len(parts) |-> int(parts[i])]

\* Python's a < b on tuples of integers: the first differing position decides,
\* and a proper prefix is the smaller one.
tuple_less(a, b) ==
    \/ \E k \in 1..Len(a) :
          /\ k <= Len(b)
          /\ \A i \in 1..(k - 1) : a[i] = b[i]
          /\ a[k] < b[k]
    \/ /\ Len(a) < Len(b)
       /\ \A i \in 1..Len(a) : a[i] = b[i]

\* A max that compares only the first component.
max_by_major(versions) ==
    CHOOSE m \in versions : \A x \in versions : x[1] <= m[1]

\* max(versions)
max(versions) ==
    CHOOSE m \in versions : \A x \in versions : ~tuple_less(m, x)

\* while len(parts) < 4: parts.append(0)
pad4(parts) == [i \in 1..4 |-> IF i <= Len(parts) THEN parts[i] ELSE 0]

\* parts[3] += 1, then the four components as text.
bump(latest) ==
    LET parts == pad4(latest) IN
    [i \in 1..4 |-> str(IF i = 4 THEN parts[i] + 1 ELSE parts[i])]

\* The versions list get_next_version builds: the parse of every listed tag
\* that starts with 'v'.
versions_read(listed) ==
    {parse_version(tag) : tag \in {t \in listed : t.marker > 0}}

\* A resolver that returns the latest version itself.
next_version_no_bump(listed) ==
    LET versions == versions_read(listed) IN
    IF versions = {} THEN <<str(1), str(0), str(0), str(0)>>
    ELSE [i \in 1..4 |-> str(pad4(max(versions))[i])]

\* The value get_next_version returns for the tags its two listings gave.
next_version(listed) ==
    LET versions == versions_read(listed) IN
    IF versions = {} THEN <<str(1), str(0), str(0), str(0)>>
    ELSE bump(max(versions))

\* What one call lists: `git tag` and `gh release list`, each skipped when the
\* command fails (returncode != 0).
listing(gitOk, ghOk, tags, rels) ==
    (IF gitOk THEN tags ELSE {}) \cup (IF ghOk THEN rels ELSE {})

\* The tag 'v<version>' of a resolved version.
release_tag(version) == [marker |-> 1, fields |-> version]

\* get_next_version(root_dir)
GetNextVersion ==
    /\ Len(resolved) < MaxResolves
    /\ \E gitOk \in BOOLEAN, ghOk \in BOOLEAN :
          LET listed == listing(gitOk, ghOk, gitTags, releases)
              call == [kind |-> "resolve", gitOk |-> gitOk, ghOk |-> ghOk,
                       tags |-> gitTags, rels |-> releases,
                       version |-> next_version(listed)]
          IN /\ vlast' = call
             /\ resolved' = Append(resolved, call)
    /\ UNCHANGED <<gitTags, releases>>
    /\ UNCHANGED <<mvars, cvars, pvars, dvars, rvars, lvars, svars, evars>>

\* The resolved version is recorded as a git tag (git tag v<version>).
RecordTag ==
    /\ vlast.kind = "resolve"
    /\ release_tag(vlast.version) \notin gitTags
    /\ gitTags' = gitTags \cup {release_tag(vlast.version)}
    /\ UNCHANGED <<releases, resolved, vlast>>
    /\ UNCHANGED <<mvars, cvars, pvars, dvars, rvars, lvars, svars, evars>>

\* The resolved version is published as a release only (gh release create
\* makes the tag on the remote; the local tag list does not get it).
RecordRelease ==
    /\ vlast.kind = "resolve"
    /\ release_tag(vlast.version) \notin releases
    /\ releases' = releases \cup {release_tag(vlast.version)}
    /\ UNCHANGED <<gitTags, resolved, vlast>>
    /\ UNCHANGED <<mvars, cvars, pvars, dvars, rvars, lvars, svars, evars>>

Tag(marker, numbers) ==
    [marker |-> marker, fields |-> [i \in 1..Len(numbers) |-> str(numbers[i])]]

\* The histories the model starts from: any subset of these tags and releases.
GitPool ==
    { Tag(1, <<1, 2, 3, 4>>),                      \* v1.2.3.4
      Tag(1, <<1, 2, 3, 9>>),                      \* v1.2.3.9
      Tag(1, <<1, 3>>),                            \* v1.3
      [marker |-> 1, fields |-> <<<<"X">>, <<"Y">>>>],                 \* vX.Y
      [marker |-> 1, fields |-> <<<<"0", "1">>, <<"2">>, <<"3">>, <<"1", "0">>>>] }
                                                   \* v01.2.3.10

ReleasePool ==
    { Tag(1, <<1, 3, 0, 0>>),                      \* v1.3.0.0
      Tag(0, <<1, 4, 0, 0>>) }                     \* 1.4.0.0

InitVersion ==
    /\ gitTags \in SUBSET GitPool
    /\ releases \in SUBSET ReleasePool
    /\ resolved = <<>>
    /\ vlast = NoCall
    /\ ManifestIdle
    /\ CdnIdle
    /\ PollIdle
    /\ DeployIdle
    /\ RepoIdle
    /\ LookupIdle
    /\ SessionIdle
    /\ SuiteIdle

NextVersion == GetNextVersion \/ RecordTag \/ RecordRelease

SpecVersion == InitVersion /\ [][NextVersion]_vars

(***************************************************************************)
(*                     CDN propagation verifier                            *)
(***************************************************************************)

\* Bounds of the verifier model: the timeouts it is called with.
ShortTimeout == 10
LongTimeout == 30

\* requests.get(..., timeout=10), requests.head(..., timeout=10)
CdnRequestTimeout == 10
\* time.sleep(2)
CdnSleep == 2

Timeouts == {ShortTimeout, LongTimeout}

\* How long one request takes: at once, a second, or until its own timeout.
Latencies == {0, 1, CdnRequestTimeout}

NoResponse == [kind |-> "none"]
\* requests raised (connection error, timeout) or resp.json() did.
Raised == [kind |-> "exception"]
Http(status, body) == [kind |-> "http", status |-> status, body |-> body]

\* What the manifest URL may answer while a release of checksum `expected`
\* propagates: an error, a miss, an empty channel, the previous manifest (the
\* new checksum not in it, or not in front), the new manifest.
ManifestResponses(expected) ==
    LET other == CHOOSE c \in Checksums : c # expected IN
    { Raised,
      Http(404, <<>>),
      Http(200, <<>>),
      Http(200, <<[versions |-> <<>>]>>),
      Http(200, <<[versions |-> <<OldEntry("2.0.0.4", other),
                                  OldEntry("2.0.0.5", expected)>>]>>),
      Http(200, <<[versions |-> <<new_entry("2.0.0.5", expected, 1),
                                  OldEntry("2.0.0.4", other)>>]>>) }

\* What a HEAD of the asset URL may answer, redirects followed.
HeadResponses == {Raised, Http(404, <<>>), Http(200, <<>>)}

\* What phase 1 waits for, read off an answer: a 200 whose channel's first
\* entry has the expected checksum.
FirstChecksumIs(resp, expected) ==
    /\ resp.kind = "http"
    /\ resp.status = 200
    /\ resp.body # <<>>
    /\ resp.body[1].versions # <<>>
    /\ Head(resp.body[1].versions).checksum = expected

\* A phase 1 that lasts as long as the whole timeout.
phase1_open_to_the_end(elapsed, timeout) == elapsed < timeout

\* while time.time() - start < timeout * 0.6
phase1_open(elapsed, timeout) == elapsed * 10 < timeout * 6

\* while time.time() - start < timeout
phase2_open(elapsed, timeout) == elapsed < timeout

\* The test of one phase-1 attempt: status 200, a non-empty manifest, a
\* non-empty versions list whose first entry has the expected checksum.  An
\* exception counts as a failed attempt.
manifest_ready(resp, expected) ==
    /\ resp.kind = "http"
    /\ resp.status = 200
    /\ Len(resp.body) > 0
    /\ Len(resp.body[1].versions) > 0
    /\ resp.body[1].versions[1].checksum = expected

\* The test of one phase-2 attempt.
head_ready(resp) == resp.kind = "http" /\ resp.status = 200

\* A verifier that goes on to phase 2 whatever phase 1 gave.
after_phase1_falls_through(ready) == "phase2"

\* if not manifest_ready: return False
after_phase1(ready) == IF ready THEN "phase2" ELSE "done"

\* A verifier that takes any answered HEAD for success.
after_head_any_answer(resp) == IF resp.kind = "http" THEN "done" ELSE "sleep2"

\* A verifier whose phase 2 ends when the HEAD raises.
after_head_error_ends(resp) ==
    IF head_ready(resp) \/ resp.kind = "exception" THEN "done" ELSE "sleep2"

\* Phase 2 returns True on a 200 and sleeps otherwise.
after_head(resp) == IF head_ready(resp) THEN "done" ELSE "sleep2"

\* A verifier that gives up when the purge request raises.
after_purge_failure_ends(resp) == IF resp = Raised THEN "done" ELSE "phase1"

\* try: requests.get(purge_url, timeout=10) except Exception: pass, and then
\* phase 1 in either case.
after_purge(resp) == "phase1"

\* start = time.time(), then the purge request, whose failure is ignored.
CdnPurge ==
    /\ cpc = "purge"
    /\ \E resp \in {Raised, Http(200, <<>>)}, d \in Latencies :
          /\ cnow' = cnow + d
          /\ clog' = [clog EXCEPT !.purges = @ + 1, !.purge = resp]
          /\ cpc' = after_purge(resp)
    /\ UNCHANGED <<cargs, cready, cresult>>
    /\ UNCHANGED <<mvars, vvars, pvars, dvars, rvars, lvars, svars, evars>>

\* One attempt of phase 1: the GET of the manifest and its test.  The log
\* keeps, for the first three attempts, whether the answer was a 200 whose
\* first entry carries the expected checksum, and the answer that ended the
\* phase, whether the last attempt ended in an error (an exception or a status
\* other than 200), and when it began and ended.
CdnFetch ==
    /\ cpc = "phase1"
    /\ phase1_open(cnow, cargs.timeout)
    /\ \E resp \in ManifestResponses(cargs.expected), d \in Latencies :
          LET ready == manifest_ready(resp, cargs.expected) IN
          /\ cnow' = cnow + d
          /\ cready' = ready
          /\ cpc' = IF ready THEN after_phase1(TRUE) ELSE "sleep1"
          /\ clog' = [clog EXCEPT
                        !.nfetch = @ + 1,
                        !.first3 = IF Len(@) < 3
                                   THEN Append(@, FirstChecksumIs(resp, cargs.expected))
                                   ELSE @,
                        !.hit = @ \/ FirstChecksumIs(resp, cargs.expected),
                        !.accepted = IF ready THEN resp ELSE @,
                        !.fetchFailed = resp.kind = "exception" \/ resp.status # 200,
                        !.fetchStart = cnow,
                        !.fetchEnd = cnow + d]
    /\ UNCHANGED <<cargs, cresult>>
    /\ UNCHANGED <<mvars, vvars, pvars, dvars, rvars, lvars, svars, evars>>

\* time.sleep(2) of phase 1.
CdnSleep1 ==
    /\ cpc = "sleep1"
    /\ cnow' = cnow + CdnSleep
    /\ cpc' = "phase1"
    /\ UNCHANGED <<cargs, cready, cresult, clog>>
    /\ UNCHANGED <<mvars, vvars, pvars, dvars, rvars, lvars, svars, evars>>

\* The phase-1 loop ends with manifest_ready still False.
CdnPhase1Over ==
    /\ cpc = "phase1"
    /\ ~phase1_open(cnow, cargs.timeout)
    /\ cpc' = after_phase1(cready)
    /\ cresult' = IF after_phase1(cready) = "done" THEN FALSE ELSE cresult
    /\ UNCHANGED <<cnow, cargs, cready, clog>>
    /\ UNCHANGED <<mvars, vvars, pvars, dvars, rvars, lvars, svars, evars>>

\* One attempt of phase 2: the HEAD of the zip and its test.
CdnHead ==
    /\ cpc = "phase2"
    /\ phase2_open(cnow, cargs.timeout)
    /\ \E resp \in HeadResponses, d \in Latencies :
          /\ cnow' = cnow + d
          /\ cpc' = after_head(resp)
          /\ cresult' = IF after_head(resp) = "done" THEN TRUE ELSE cresult
          /\ clog' = [clog EXCEPT
                        !.nhead = @ + 1,
                        !.firstHead = IF @ = NoResponse THEN resp ELSE @,
                        !.head = resp]
    /\ UNCHANGED <<cargs, cready>>
    /\ UNCHANGED <<mvars, vvars, pvars, dvars, rvars, lvars, svars, evars>>

\* time.sleep(2) of phase 2.
CdnSleep2 ==
    /\ cpc = "sleep2"
    /\ cnow' = cnow + CdnSleep
    /\ cpc' = "phase2"
    /\ UNCHANGED <<cargs, cready, cresult, clog>>
    /\ UNCHANGED <<mvars, vvars, pvars, dvars, rvars, lvars, svars, evars>>

\* The phase-2 loop ends: timeout.
CdnPhase2Over ==
    /\ cpc = "phase2"
    /\ ~phase2_open(cnow, cargs.timeout)
    /\ cpc' = "done"
    /\ cresult' = FALSE
    /\ UNCHANGED <<cnow, cargs, cready, clog>>
    /\ UNCHANGED <<mvars, vvars, pvars, dvars, rvars, lvars, svars, evars>>

EmptyCdnLog ==
    [purges |-> 0, purge |-> NoResponse,
     nfetch |-> 0, first3 |-> <<>>, hit |-> FALSE, accepted |-> NoResponse,
     fetchFailed |-> FALSE, fetchStart |-> 0, fetchEnd |-> 0,
     nhead |-> 0, firstHead |-> NoResponse, head |-> NoResponse]

\* wait_for_cdn_update(manifest_url, expected_checksum, version, timeout) has
\* just taken start = time.time().
InitCdn ==
    /\ cpc = "purge"
    /\ cnow = 0
    /\ \E expected \in Checksums, timeout \in Timeouts :
          cargs = [kind |-> "cdn", expected |-> expected, timeout |-> timeout]
    /\ cready = FALSE
    /\ cresult = "none"
    /\ clog = EmptyCdnLog
    /\ ManifestIdle
    /\ VersionIdle
    /\ PollIdle
    /\ DeployIdle
    /\ RepoIdle
    /\ LookupIdle
    /\ SessionIdle
    /\ SuiteIdle

NextCdn ==
    \/ CdnPurge
    \/ CdnFetch
    \/ CdnSleep1
    \/ CdnPhase1Over
    \/ CdnHead
    \/ CdnSleep2
    \/ CdnPhase2Over

SpecCdn == InitCdn /\ [][NextCdn]_vars

(***************************************************************************)
(*            JellyfinDeployer: the convergence polls                      *)
(***************************************************************************)

\* Bounds of the poll model: the longest timeout a poll is called with, and
\* the longest plugin list the host answers with.
MaxPollTimeout == 4
MaxPlugins == 2

\* time.sleep(2)
PollSleepSeconds == 2
\* self.session.get(.../System/Info/Public, timeout=5)
PollRequestTimeout == 5

PollLatencies == {0, 1, PollRequestTimeout}

\* The timeouts a poll is called with: over after one attempt, or later.
PollTimeouts == {1, MaxPollTimeout}

\* str.lower() on the names of the model.
lower(name) ==
    CASE name = "TunnelFin" -> "tunnelfin"
      [] name = "tunnelfin" -> "tunnelfin"
      [] name = "Other" -> "other"
      [] OTHER -> name

\* The elements a GET /Plugins answer is made of: the plugin in the target
\* version, active or waiting for a restart, in another version, listed under
\* a name of another letter case, and another plugin.
Plugins ==
    { [Name |-> "TunnelFin", Version |-> "3.1.0.2", Status |-> "Active"],
      [Name |-> "TunnelFin", Version |-> "3.1.0.2", Status |-> "Restart"],
      [Name |-> "TunnelFin", Version |-> "3.1.0.1", Status |-> "Active"],
      [Name |-> "tunnelfin", Version |-> "3.1.0.2", Status |-> "Active"],
      [Name |-> "Other", Version |-> "3.1.0.2", Status |-> "Active"] }

PluginLists == UNION {[1..n -> Plugins] : n \in 0..MaxPlugins}

\* get_plugins(): the list, or an exception (connection error, HTTP error
\* status, a body that is no JSON).
PluginObservations == {Raised} \cup {[kind |-> "plugins", plugins |-> l] : l \in PluginLists}

\* The answers of GET /System/Info/Public.
ServerObservations == {Raised, Http(200, <<>>), Http(503, <<>>)}

\* A poll that gives up at half of its timeout.
poll_open_half(elapsed, timeout) == elapsed * 2 < timeout

\* while time.time() - start < timeout
poll_open(elapsed, timeout) == elapsed < timeout

\* wait_for_server: resp.status_code == 200
server_ready(obs) == obs.kind = "http" /\ obs.status = 200

\* next((p for p in plugins if p.get("Name", "").lower() == plugin_name.lower()), None):
\* the index of the first plugin of that name, 0 for None.
first_named(plugins, plugin_name) ==
    IF \E i \in 1..Len(plugins) : lower(plugins[i].Name) = lower(plugin_name)
    THEN CHOOSE i \in 1..Len(plugins) :
            /\ lower(plugins[i].Name) = lower(plugin_name)
            /\ \A j \in 1..(i - 1) : lower(plugins[j].Name) # lower(plugin_name)
    ELSE 0

\* A state test without the "Deleted" sentinel: the plugin must be listed with
\* that Status.
state_ready_no_sentinel(obs, plugin_name, expected_state) ==
    /\ obs.kind = "plugins"
    /\ \E i \in 1..Len(obs.plugins) :
          /\ lower(obs.plugins[i].Name) = lower(plugin_name)
          /\ obs.plugins[i].Status = expected_state

\* The test of one wait_for_plugin_state attempt.
state_ready(obs, plugin_name, expected_state) ==
    /\ obs.kind = "plugins"
    /\ LET i == first_named(obs.plugins, plugin_name) IN
       IF expected_state = "Deleted"
       THEN i = 0
       ELSE i # 0 /\ obs.plugins[i].Status = expected_state

\* A version test that does not look at the Status field.
version_ready_any_status(obs, plugin_name, version) ==
    /\ obs.kind = "plugins"
    /\ \E i \in 1..Len(obs.plugins) :
          /\ lower(obs.plugins[i].Name) = lower(plugin_name)
          /\ obs.plugins[i].Version = version

\* The test of one wait_for_plugin_version attempt: some plugin of that name
\* has the version and is Active.
version_ready(obs, plugin_name, version) ==
    /\ obs.kind = "plugins"
    /\ \E i \in 1..Len(obs.plugins) :
          /\ lower(obs.plugins[i].Name) = lower(plugin_name)
          /\ obs.plugins[i].Version = version
          /\ obs.plugins[i].Status = "Active"

\* What one attempt of the poll may observe.
observations(args) ==
    IF args.kind = "server" THEN ServerObservations ELSE PluginObservations

\* Whether the attempt returns True.
attempt_ready(args, obs) ==
    CASE args.kind = "server" -> server_ready(obs)
      [] args.kind = "state" -> state_ready(obs, args.name, args.expected)
      [] args.kind = "version" -> version_ready(obs, args.name, args.expected)

\* One attempt of the loop: the request inside try, return True when its test
\* holds; an exception is swallowed.
PollAttempt ==
    /\ ppc = "loop"
    /\ poll_open(pnow, pargs.timeout)
    /\ \E obs \in observations(pargs), d \in PollLatencies :
          /\ pnow' = pnow + d
          /\ plog' = [npolls |-> plog.npolls + 1, obs |-> obs]
          /\ IF attempt_ready(pargs, obs)
             THEN ppc' = "done" /\ presult' = "True"
             ELSE ppc' = "sleep" /\ presult' = presult
    /\ UNCHANGED pargs
    /\ UNCHANGED <<mvars, vvars, cvars, dvars, rvars, lvars, svars, evars>>

\* get_plugins sends its GET without a timeout: against a host that accepts
\* the connection and never answers, the call does not return.
PollHang ==
    /\ ppc = "loop"
    /\ poll_open(pnow, pargs.timeout)
    /\ pargs.kind \in {"state", "version"}
    /\ ppc' = "hung"
    /\ UNCHANGED <<pnow, pargs, presult, plog>>
    /\ UNCHANGED <<mvars, vvars, cvars, dvars, rvars, lvars, svars, evars>>

\* time.sleep(2)
PollSleep ==
    /\ ppc = "sleep"
    /\ pnow' = pnow + PollSleepSeconds
    /\ ppc' = "loop"
    /\ UNCHANGED <<pargs, presult, plog>>
    /\ UNCHANGED <<mvars, vvars, cvars, dvars, rvars, lvars, svars, evars>>

\* The loop ends: print " timeout!", return False.
PollTimeout ==
    /\ ppc = "loop"
    /\ ~poll_open(pnow, pargs.timeout)
    /\ ppc' = "done"
    /\ presult' = "False"
    /\ UNCHANGED <<pnow, pargs, plog>>
    /\ UNCHANGED <<mvars, vvars, cvars, dvars, rvars, lvars, svars, evars>>

\* The calls of the model: wait_for_server(timeout),
\* wait_for_plugin_state("TunnelFin", state, timeout),
\* wait_for_plugin_version("TunnelFin", version, timeout).
PollCalls ==
    {[kind |-> "server", name |-> "", expected |-> "", timeout |-> t] :
        t \in PollTimeouts}
    \cup {[kind |-> "state", name |-> "TunnelFin", expected |-> e, timeout |-> t] :
        e \in {"Deleted", "Active"}, t \in PollTimeouts}
    \cup {[kind |-> "version", name |-> "TunnelFin", expected |-> v, timeout |-> t] :
        v \in {"3.1.0.2"}, t \in PollTimeouts}

\* A poll has just taken start = time.time().
InitPoll ==
    /\ ppc = "loop"
    /\ pnow = 0
    /\ pargs \in PollCalls
    /\ presult = "none"
    /\ plog = [npolls |-> 0, obs |-> NoResponse]
    /\ ManifestIdle
    /\ VersionIdle
    /\ CdnIdle
    /\ DeployIdle
    /\ RepoIdle
    /\ LookupIdle
    /\ SessionIdle
    /\ SuiteIdle

NextPoll == PollAttempt \/ PollHang \/ PollSleep \/ PollTimeout

SpecPoll == InitPoll /\ [][NextPoll]_vars

\* A poll whose process keeps running: a step that can be taken is taken
\* (every step of a poll changes ppc).
SpecPollLive == SpecPoll /\ WF_ppc(NextPoll)

\* The five convergence polls together: one of the client's polls, or the
\* verifier with its two phases.
InitConverge == InitPoll \/ InitCdn

NextConverge == NextPoll \/ NextCdn

SpecConverge == InitConverge /\ [][NextConverge]_vars

(***************************************************************************)
(*   deploy_local from step 4 on (the two-phase deployment), and            *)
(*   deploy_via_repo from the construction of the deployer on              *)
(***************************************************************************)

\* What find_tunnelfin_plugin returns: None, or the Id field of the first
\* plugin named tunnelfin, which the host may leave empty.
PluginIds == {"None", "", "id-1"}

\* if plugin_id:
truthy(id) == id \notin {"None", ""}

\* One call on the deployer and how it ended: the printed return value, or
\* "raised" when an exception left the call.
Call(name, result) == [call |-> name, result |-> result]

\* The teardown phase is entered whatever find_tunnelfin_plugin returned.
after_find_always_uninstalls(id) == "uninstall_plugin"

\* Lines 606-607: where deploy_local goes after find_tunnelfin_plugin.
after_find(id) == IF truthy(id) THEN "uninstall_plugin" ELSE "install_plugin"

\* A deploy that gives up when the host does not come back.
after_wait_for_server_aborts(phase, ok) ==
    CASE ok # "True" -> "exit"
      [] phase = 1 -> "re_authenticate_1"
      [] phase = 2 -> "re_authenticate_2"

\* A deploy that triggers the install again when the host did not come back
\* after it.
after_wait_for_server_retries(phase, ok) ==
    CASE phase = 1 /\ ok = "True" -> "re_authenticate_1"
      [] phase = 1 /\ ok # "True" -> "install_plugin"
      [] phase = 2 /\ ok = "True" -> "re_authenticate_2"
      [] phase = 2 /\ ok # "True" -> "install_plugin"

\* Lines 610-615 and 620-626: where deploy_local goes after wait_for_server
\* of the teardown phase (phase 1) and of the install phase (phase 2).
after_wait_for_server(phase, ok) ==
    CASE phase = 1 /\ ok = "True" -> "re_authenticate_1"
      [] phase = 1 /\ ok # "True" -> "install_plugin"
      [] phase = 2 /\ ok = "True" -> "re_authenticate_2"
      [] phase = 2 /\ ok # "True" -> "wait_for_plugin_version"

\* A deploy that goes on after a failed authentication.
after_authenticate_goes_on(ok) == "ensure_repository"

\* if not deployer.authenticate(): sys.exit(1)
after_authenticate(ok) == IF ok = "True" THEN "ensure_repository" ELSE "exit"

\* Lines 512-515 and 608-609: where the deploy goes after uninstall_plugin.
after_uninstall(mode) == IF mode = "local" THEN "restart_server_1" ELSE "install_plugin"

\* Lines 515-520 and 609-620: where the deploy goes after restart_server.
after_restart(mode, pc) ==
    CASE pc = "restart_server_1" -> "wait_for_server_1"
      [] pc = "restart_server_2" /\ mode = "local" -> "wait_for_server_2"
      [] pc = "restart_server_2" /\ mode # "local" -> "done"

\* How the POST of authenticate, re_authenticate or restart_server may end:
\* a connection error (refused, reset, timed out), an HTTP error status, a
\* 2xx answer whose body is no JSON object, a 2xx answer with the token.
RequestOutcomes == {"connection error", "http error", "bad body", "success"}

\* authenticate: True after raise_for_status and response.json() went
\* through, False from except Exception.
authenticate_result(outcome) == IF outcome = "success" THEN "True" ELSE "False"

\* A re_authenticate that lets a connection error through.
re_authenticate_raises(outcome) ==
    CASE outcome = "success" -> "True"
      [] outcome = "connection error" -> "raised"
      [] OTHER -> "False"

\* re_authenticate: True at the end of try, False from except Exception.
re_authenticate_result(outcome) == IF outcome = "success" THEN "True" ELSE "False"

\* A restart_server without its try.
restart_server_raises(outcome) ==
    IF outcome = "connection error" THEN "raised" ELSE "None"

\* restart_server: the POST's answer is not read and except Exception passes.
restart_server_result(outcome) == "None"

\* How the DELETE of uninstall_plugin may end: a status, or no answer.
UninstallOutcomes == {"204", "404", "connection error"}

\* uninstall_plugin: the response is not read.
uninstall_plugin_result(outcome) ==
    IF outcome = "connection error" THEN "raised" ELSE "None"

\* How the POST of install_plugin may end: a status, or no answer.
InstallOutcomes == {"200", "204", "202", "404", "500", "connection error"}

\* An install_plugin that takes every 2xx status for an acceptance.
install_plugin_any_2xx(outcome) ==
    CASE outcome = "connection error" -> "raised"
      [] outcome \in {"200", "202", "204"} -> "True"
      [] OTHER -> "False"

\* install_plugin: True if response.status_code in (200, 204), else False.
install_plugin_result(outcome) ==
    CASE outcome = "connection error" -> "raised"
      [] outcome \in {"200", "204"} -> "True"
      [] OTHER -> "False"

\* The lines a deploy prints about its outcome.
IsActive == "TunnelFin v{version} is Active!"
StatusLine == "TunnelFin v{installed_version} status: {status}"
NotFound == "TunnelFin not found after install"
Complete == "Deployment complete!"

\* print("Deployment complete!") at the end of deploy_local and of
\* deploy_via_repo.
summary(printed) == Append(printed, Complete)

\* One call that makes one request, with how the request ended.
Request(name, outcome, result) ==
    [call |-> name, result |-> result, outcome |-> outcome]

\* An exception nobody catches ends the run with a traceback.
step(result, next) == IF result = "raised" THEN "raised" ELSE next

\* One step that is given the checksum, with the value it was given.
Digest(name, result, digest) ==
    [call |-> name, result |-> result, checksum |-> digest]

\* A run_command that goes on whatever the return code.
run_command_unchecked(returncode, next) == next

\* run_command(cmd) with check=True: a non-zero return code ends the run
\* with sys.exit(1).
run_command(returncode, next) == IF returncode = "0" THEN next ELSE "exit"

\* main of build-plugin.py builds first; main of deploy.py reads the
\* credentials first.
first_step(mode) == IF mode = "script" THEN "credentials" ELSE "build_plugin"

\* main: after build_plugin, deploy_via_repo or deploy_local; in deploy.py,
\* update_manifest.
after_build(mode) ==
    CASE mode = "local" -> "which gh"
      [] mode = "repo" -> "credentials"
      [] mode = "script" -> "update_manifest"

\* A deploy that goes on without the credentials.
after_credentials_goes_on(mode, found) ==
    CASE mode = "local" -> "update_manifest"
      [] mode = "repo" -> "authenticate"
      [] mode = "script" -> "build_plugin"

\* if not all([jellyfin_url, username, password]): sys.exit(1)
after_credentials(mode, found) ==
    CASE found # "present" -> "exit"
      [] mode = "local" -> "update_manifest"
      [] mode = "repo" -> "authenticate"
      [] mode = "script" -> "build_plugin"

\* Step 2 of deploy_local after its step 1; deploy_to_jellyfin in deploy.py.
after_update_manifest(mode) ==
    IF mode = "local" THEN "gh release" ELSE "deploy_to_jellyfin"

\* main: zip_path, checksum = build_plugin(root_dir, version).  The digest
\* is calculate_md5 of the zip build_plugin has just closed; a failing
\* dotnet command ends the run.
DeployBuild ==
    /\ dpc = "build_plugin"
    /\ \E r \in Checksums \cup {"exit"} :
          /\ dtrace' = Append(dtrace, Call("build_plugin", r))
          /\ dchecksum' = IF r = "exit" THEN dchecksum ELSE r
          /\ dpc' = IF r = "exit" THEN "exit" ELSE after_build(dmode)
    /\ UNCHANGED <<dmode, plugin_id, dout>>
    /\ UNCHANGED <<mvars, vvars, cvars, pvars, rvars, lvars, svars, evars>>

\* deploy_local: run_command(["which", "gh"], check=False), and sys.exit(1)
\* when its return code is not 0.
DeployWhichGh ==
    /\ dpc = "which gh"
    /\ \E returncode \in {"0", "1"} :
          /\ dtrace' = Append(dtrace, Call("which gh", returncode))
          /\ dpc' = run_command(returncode, "credentials")
    /\ UNCHANGED <<dmode, plugin_id, dchecksum, dout>>
    /\ UNCHANGED <<mvars, vvars, cvars, pvars, rvars, lvars, svars, evars>>

\* JELLYFIN_URL, JELLYFIN_USERNAME and JELLYFIN_PASSWORD are read from the
\* environment; the run ends when one of them is missing or empty.
DeployCredentials ==
    /\ dpc = "credentials"
    /\ \E found \in {"present", "missing"} :
          /\ dtrace' = Append(dtrace, Call("credentials", found))
          /\ dpc' = after_credentials(dmode, found)
    /\ UNCHANGED <<dmode, plugin_id, dchecksum, dout>>
    /\ UNCHANGED <<mvars, vvars, cvars, pvars, rvars, lvars, svars, evars>>

\* Step 1 of deploy_local: update_manifest(root_dir, version, checksum),
\* which raises when manifest.json cannot be read; in deploy.py,
\* update_manifest(manifest_path, version, checksum).
DeployUpdateManifest ==
    /\ dpc = "update_manifest"
    /\ \E r \in {"None", "raised"} :
          /\ dtrace' = Append(dtrace, Digest("update_manifest", r, dchecksum))
          /\ dpc' = step(r, after_update_manifest(dmode))
    /\ UNCHANGED <<dmode, plugin_id, dchecksum, dout>>
    /\ UNCHANGED <<mvars, vvars, cvars, pvars, rvars, lvars, svars, evars>>

\* Step 2 of deploy_local: gh release view, then gh release upload --clobber
\* of the zip when the release exists and gh release create with the zip
\* when it does not, both with check=True.
DeployRelease ==
    /\ dpc = "gh release"
    /\ \E exists \in BOOLEAN, returncode \in {"0", "1"} :
          /\ dtrace' = Append(dtrace,
                Call(IF exists THEN "gh release upload" ELSE "gh release create",
                     returncode))
          /\ dpc' = run_command(returncode, "git push")
    /\ UNCHANGED <<dmode, plugin_id, dchecksum, dout>>
    /\ UNCHANGED <<mvars, vvars, cvars, pvars, rvars, lvars, svars, evars>>

\* Step 3 of deploy_local: git add, git commit, git push of the branch and
\* of main; a failing git add, rev-parse, push, pull, merge or fetch ends the
\* run.
DeployPush ==
    /\ dpc = "git push"
    /\ \E returncode \in {"0", "1"} :
          /\ dtrace' = Append(dtrace, Call("git push", returncode))
          /\ dpc' = run_command(returncode, "wait_for_cdn_update")
    /\ UNCHANGED <<dmode, plugin_id, dchecksum, dout>>
    /\ UNCHANGED <<mvars, vvars, cvars, pvars, rvars, lvars, svars, evars>>

\* deploy.py: deploy_to_jellyfin posts the authentication, exits with status
\* 1 on a status other than 200 and raises on a connection error; the restart
\* and the E2E tests that follow it in main are not part of this model.
DeployToJellyfin ==
    /\ dpc = "deploy_to_jellyfin"
    /\ \E r \in {"headers", "exit", "raised"} :
          /\ dtrace' = Append(dtrace, Call("deploy_to_jellyfin", r))
          /\ dpc' = CASE r = "headers" -> "done"
                       [] r = "exit" -> "exit"
                       [] r = "raised" -> "raised"
    /\ UNCHANGED <<dmode, plugin_id, dchecksum, dout>>
    /\ UNCHANGED <<mvars, vvars, cvars, pvars, rvars, lvars, svars, evars>>

\* A step 4 that is given the digest of another file.
DeployCdnOtherDigest ==
    /\ dpc = "wait_for_cdn_update"
    /\ \E ok \in {"True", "False"}, digest \in Checksums :
          dtrace' = Append(dtrace, Digest("wait_for_cdn_update", ok, digest))
    /\ dpc' = "authenticate"
    /\ UNCHANGED <<dmode, plugin_id, dchecksum, dout>>
    /\ UNCHANGED <<mvars, vvars, cvars, pvars, rvars, lvars, svars, evars>>

\* Step 4 of deploy_local: if not wait_for_cdn_update(repo_url, checksum,
\* version, timeout=120): two warnings are printed, and the deploy goes on.
DeployCdn ==
    /\ dpc = "wait_for_cdn_update"
    /\ \E ok \in {"True", "False"} :
          dtrace' = Append(dtrace, Digest("wait_for_cdn_update", ok, dchecksum))
    /\ dpc' = "authenticate"
    /\ UNCHANGED <<dmode, plugin_id, dchecksum, dout>>
    /\ UNCHANGED <<mvars, vvars, cvars, pvars, rvars, lvars, svars, evars>>

\* deployer.authenticate(): False ends the run with sys.exit(1).
DeployAuthenticate ==
    /\ dpc = "authenticate"
    /\ \E outcome \in RequestOutcomes :
          LET ok == authenticate_result(outcome) IN
          /\ dtrace' = Append(dtrace, Request("authenticate", outcome, ok))
          /\ dpc' = after_authenticate(ok)
    /\ UNCHANGED <<dmode, plugin_id, dchecksum, dout>>
    /\ UNCHANGED <<mvars, vvars, cvars, pvars, rvars, lvars, svars, evars>>

\* deployer.ensure_repository(repo_url): get_repositories raises on a
\* connection error, an HTTP error status or a body that is no JSON.
DeployEnsureRepository ==
    /\ dpc = "ensure_repository"
    /\ \E r \in {"None", "raised"} :
          /\ dtrace' = Append(dtrace, Call("ensure_repository", r))
          /\ dpc' = step(r, "find_tunnelfin_plugin")
    /\ UNCHANGED <<dmode, plugin_id, dchecksum, dout>>
    /\ UNCHANGED <<mvars, vvars, cvars, pvars, rvars, lvars, svars, evars>>

\* plugin_id = deployer.find_tunnelfin_plugin(); get_plugins may raise.
DeployFind ==
    /\ dpc = "find_tunnelfin_plugin"
    /\ \E r \in PluginIds \cup {"raised"} :
          /\ dtrace' = Append(dtrace, Call("find_tunnelfin_plugin", r))
          /\ plugin_id' = IF r = "raised" THEN plugin_id ELSE r
          /\ dpc' = step(r, after_find(r))
    /\ UNCHANGED <<dmode, dchecksum, dout>>
    /\ UNCHANGED <<mvars, vvars, cvars, pvars, rvars, lvars, svars, evars>>

\* deployer.uninstall_plugin(plugin_id): the DELETE's status is not read; a
\* connection error raises.
DeployUninstall ==
    /\ dpc = "uninstall_plugin"
    /\ \E outcome \in UninstallOutcomes :
          LET r == uninstall_plugin_result(outcome) IN
          /\ dtrace' = Append(dtrace, Request("uninstall_plugin", outcome, r))
          /\ dpc' = step(r, after_uninstall(dmode))
    /\ UNCHANGED <<dmode, plugin_id, dchecksum, dout>>
    /\ UNCHANGED <<mvars, vvars, cvars, pvars, rvars, lvars, svars, evars>>

\* deployer.restart_server(): exceptions of the POST are swallowed.  It is
\* the last call of deploy_via_repo, which then prints its summary.
DeployRestart ==
    /\ dpc \in {"restart_server_1", "restart_server_2"}
    /\ \E outcome \in RequestOutcomes :
          LET r == restart_server_result(outcome) IN
          /\ dtrace' = Append(dtrace, Request("restart_server", outcome, r))
          /\ dpc' = step(r, after_restart(dmode, dpc))
    /\ dout' = IF dpc' = "done" THEN summary(dout) ELSE dout
    /\ UNCHANGED <<dmode, plugin_id, dchecksum>>
    /\ UNCHANGED <<mvars, vvars, cvars, pvars, rvars, lvars, svars, evars>>

\* deployer.wait_for_server(timeout=90)
DeployWaitForServer ==
    /\ dpc \in {"wait_for_server_1", "wait_for_server_2"}
    /\ \E ok \in {"True", "False"} :
          /\ dtrace' = Append(dtrace, Call("wait_for_server", ok))
          /\ dpc' = after_wait_for_server(IF dpc = "wait_for_server_1" THEN 1 ELSE 2, ok)
    /\ UNCHANGED <<dmode, plugin_id, dchecksum, dout>>
    /\ UNCHANGED <<mvars, vvars, cvars, pvars, rvars, lvars, svars, evars>>

\* deployer.re_authenticate(): its result is not read.
DeployReAuthenticate ==
    /\ dpc \in {"re_authenticate_1", "re_authenticate_2"}
    /\ \E outcome \in RequestOutcomes :
          LET r == re_authenticate_result(outcome) IN
          /\ dtrace' = Append(dtrace, Request("re_authenticate", outcome, r))
          /\ dpc' = step(r, IF dpc = "re_authenticate_1"
                            THEN "wait_for_plugin_state" ELSE "wait_for_plugin_version")
    /\ UNCHANGED <<dmode, plugin_id, dchecksum, dout>>
    /\ UNCHANGED <<mvars, vvars, cvars, pvars, rvars, lvars, svars, evars>>

\* deployer.wait_for_plugin_state("TunnelFin", "Deleted", timeout=30): its
\* result is not read.
DeployWaitForPluginState ==
    /\ dpc = "wait_for_plugin_state"
    /\ \E ok \in {"True", "False"} :
          dtrace' = Append(dtrace, Call("wait_for_plugin_state", ok))
    /\ dpc' = "install_plugin"
    /\ UNCHANGED <<dmode, plugin_id, dchecksum, dout>>
    /\ UNCHANGED <<mvars, vvars, cvars, pvars, rvars, lvars, svars, evars>>

\* deployer.install_plugin(repo_url, version): its result is not read; a
\* connection error raises.
DeployInstall ==
    /\ dpc = "install_plugin"
    /\ \E outcome \in InstallOutcomes :
          LET r == install_plugin_result(outcome) IN
          /\ dtrace' = Append(dtrace, Request("install_plugin", outcome, r))
          /\ dpc' = step(r, "restart_server_2")
    /\ UNCHANGED <<dmode, plugin_id, dchecksum, dout>>
    /\ UNCHANGED <<mvars, vvars, cvars, pvars, rvars, lvars, svars, evars>>

\* if deployer.wait_for_plugin_version("TunnelFin", version, timeout=60):
\* print "TunnelFin v{version} is Active!", and then the summary.
DeployVerify ==
    /\ dpc = "wait_for_plugin_version"
    /\ \E ok \in {"True", "False"} :
          /\ dtrace' = Append(dtrace, Call("wait_for_plugin_version", ok))
          /\ dpc' = IF ok = "True" THEN "done" ELSE "final_find"
          /\ dout' = IF ok = "True" THEN summary(Append(dout, IsActive)) ELSE dout
    /\ UNCHANGED <<dmode, plugin_id, dchecksum>>
    /\ UNCHANGED <<mvars, vvars, cvars, pvars, rvars, lvars, svars, evars>>

\* The final check: plugin_id = deployer.find_tunnelfin_plugin(); without
\* an id "TunnelFin not found after install" is printed, and then the summary.
DeployFinalFind ==
    /\ dpc = "final_find"
    /\ \E r \in PluginIds \cup {"raised"} :
          /\ dtrace' = Append(dtrace, Call("find_tunnelfin_plugin", r))
          /\ plugin_id' = IF r = "raised" THEN plugin_id ELSE r
          /\ dpc' = step(r, IF truthy(r) THEN "final_get_plugins" ELSE "done")
    /\ dout' = IF dpc' = "done" THEN summary(Append(dout, NotFound)) ELSE dout
    /\ UNCHANGED <<dmode, dchecksum>>
    /\ UNCHANGED <<mvars, vvars, cvars, pvars, rvars, lvars, svars, evars>>

\* The final check: plugins = deployer.get_plugins(), and the print loop:
\* "TunnelFin v{installed_version} status: {status}" for each plugin of the
\* list whose Id is plugin_id (the list may hold none), and then the summary.
DeployFinalGetPlugins ==
    /\ dpc = "final_get_plugins"
    /\ \E r \in {"list", "raised"}, listed \in BOOLEAN :
          /\ dtrace' = Append(dtrace, Call("get_plugins", r))
          /\ dpc' = step(r, "done")
          /\ dout' = CASE r = "raised" -> dout
                       [] listed -> summary(Append(dout, StatusLine))
                       [] OTHER -> summary(dout)
    /\ UNCHANGED <<dmode, plugin_id, dchecksum>>
    /\ UNCHANGED <<mvars, vvars, cvars, pvars, rvars, lvars, svars, evars>>

\* main of build-plugin.py has read its arguments (--deploy-local or
\* --deploy) and the version, or main of deploy.py has read its arguments.
InitDeploy ==
    /\ dmode \in {"local", "repo", "script"}
    /\ dpc = first_step(dmode)
    /\ plugin_id = "None"
    /\ dchecksum = "none"
    /\ dtrace = <<>>
    /\ dout = <<>>
    /\ ManifestIdle
    /\ VersionIdle
    /\ CdnIdle
    /\ PollIdle
    /\ RepoIdle
    /\ LookupIdle
    /\ SessionIdle
    /\ SuiteIdle

NextDeploy ==
    \/ DeployBuild
    \/ DeployWhichGh
    \/ DeployCredentials
    \/ DeployUpdateManifest
    \/ DeployRelease
    \/ DeployPush
    \/ DeployToJellyfin
    \/ DeployCdn
    \/ DeployAuthenticate
    \/ DeployEnsureRepository
    \/ DeployFind
    \/ DeployUninstall
    \/ DeployRestart
    \/ DeployWaitForServer
    \/ DeployReAuthenticate
    \/ DeployWaitForPluginState
    \/ DeployInstall
    \/ DeployVerify
    \/ DeployFinalFind
    \/ DeployFinalGetPlugins

SpecDeploy == InitDeploy /\ [][NextDeploy]_vars

(***************************************************************************)
(*            JellyfinDeployer.ensure_repository                           *)
(***************************************************************************)

\* Bounds of the repository model: the longest registration list the host
\* starts with, and the number of ensure_repository calls.
MaxRepos == 2
MaxEnsures == 2

RepoNames == {"TunnelFin", "My TunnelFin", "Other"}
RepoUrls == {"https://raw/manifest.json", "https://cdn/manifest.json"}

\* The registrations a host may hold: {Name, Url, Enabled}.
Registrations == [Name : RepoNames, Url : RepoUrls, Enabled : BOOLEAN]

RepoLists == UNION {[1..n -> Registrations] : n \in 0..MaxRepos}

\* "TunnelFin" in r.get("Name", ""), on the names of the model.
contains_TunnelFin(name) == name \in {"TunnelFin", "My TunnelFin"}

\* A search that finds nothing.
existing_idx_none(list) == 0

\* for i, r in enumerate(repos): if "TunnelFin" in r.get("Name", ""):
\* existing_idx = i; break.  0 stands for None, indices count from 1.
existing_idx(list) ==
    IF \E i \in 1..Len(list) : contains_TunnelFin(list[i].Name)
    THEN CHOOSE i \in 1..Len(list) :
            /\ contains_TunnelFin(list[i].Name)
            /\ \A j \in 1..(i - 1) : ~contains_TunnelFin(list[j].Name)
    ELSE 0

\* An update that sets the Url and leaves Enabled as it was.
set_url_only(list, i, repo_url) == [list EXCEPT ![i].Url = repo_url]

\* repos[existing_idx]["Url"] = repo_url; repos[existing_idx]["Enabled"] = True
set_url(list, i, repo_url) ==
    [list EXCEPT ![i].Url = repo_url, ![i].Enabled = TRUE]

\* repos.append({"Name": "TunnelFin", "Url": repo_url, "Enabled": True})
add_repo(list, repo_url) ==
    Append(list, [Name |-> "TunnelFin", Url |-> repo_url, Enabled |-> TRUE])

\* What ensure_repository does with the list it fetched: whether it calls
\* set_repositories, and with which list.
ensure_plan(list, repo_url) ==
    LET i == existing_idx(list) IN
    IF i # 0
    THEN IF list[i].Url # repo_url
         THEN [write |-> TRUE, list |-> set_url(list, i, repo_url)]
         ELSE [write |-> FALSE, list |-> list]
    ELSE [write |-> TRUE, list |-> add_repo(list, repo_url)]

\* One ensure_repository(repo_url) call.  get_repositories raises on a
\* connection error, an HTTP error status or a body that is no JSON, and the
\* call ends there; set_repositories does not read the answer of its POST, and
\* a connection error in it raises.  The host applies a list it received.
\* rlast records the call: the list fetched, the list written, and whether the
\* call before it had the same URL and ran to its end.
EnsureRepository ==
    /\ rcalls < MaxEnsures
    /\ rcalls' = rcalls + 1
    /\ \E repo_url \in RepoUrls, fetched \in BOOLEAN, sent \in BOOLEAN :
          LET plan == ensure_plan(repos, repo_url)
              wrote == fetched /\ plan.write /\ sent
          IN
          /\ repos' = IF wrote THEN plan.list ELSE repos
          /\ rlast' = [kind |-> "ensure", url |-> repo_url,
                       fetched |-> fetched,
                       before |-> IF fetched THEN repos ELSE <<>>,
                       wrote |-> wrote,
                       written |-> IF wrote THEN plan.list ELSE <<>>,
                       raised |-> ~fetched \/ (plan.write /\ ~sent),
                       again |-> /\ rlast.kind = "ensure"
                                 /\ rlast.url = repo_url
                                 /\ ~rlast.raised]
    /\ UNCHANGED <<mvars, vvars, cvars, pvars, dvars, lvars, svars, evars>>

\* The host's registrations before the first call.
InitRepo ==
    /\ repos \in RepoLists
    /\ rlast = NoCall
    /\ rcalls = 0
    /\ ManifestIdle
    /\ VersionIdle
    /\ CdnIdle
    /\ PollIdle
    /\ DeployIdle
    /\ LookupIdle
    /\ SessionIdle
    /\ SuiteIdle

NextRepo == EnsureRepository

SpecRepo == InitRepo /\ [][NextRepo]_vars

(***************************************************************************)
(*   The plugin lookups: JellyfinDeployer.find_tunnelfin_plugin and the     *)
(*   selection of TunnelFinE2ETestSuite.test_plugin_installed              *)
(***************************************************************************)

\* Bound of the lookup model: the longest plugin list the host answers with.
MaxListed == 2

\* TUNNELFIN_PLUGIN_GUID of the E2E client.
TUNNELFIN_PLUGIN_GUID == "A7F8B3C2-1D4E-4A5B-9C6D-7E8F9A0B1C2D"

\* The Id fields of the model: the GUID in capital and in small letters, and
\* the Id of another plugin.
ListedIds ==
    {TUNNELFIN_PLUGIN_GUID, "a7f8b3c2-1d4e-4a5b-9c6d-7e8f9a0b1c2d",
     "11111111-2222-3333-4444-555555555555"}

\* str.upper() on the Ids of the model.
upper(id) ==
    IF id = "a7f8b3c2-1d4e-4a5b-9c6d-7e8f9a0b1c2d" THEN TUNNELFIN_PLUGIN_GUID ELSE id

\* The plugins a GET /Plugins answer is made of, and the answers.
ListedPlugins == [Name : {"TunnelFin", "tunnelfin", "Other"}, Id : ListedIds]

ListedAnswers == UNION {[1..n -> ListedPlugins] : n \in 0..MaxListed}

\* find_tunnelfin_plugin: the Id of the first plugin whose name is tunnelfin
\* in small letters, None without one.
find_tunnelfin_plugin(plugins) ==
    LET i == first_named(plugins, "tunnelfin") IN
    IF i = 0 THEN "None" ELSE plugins[i].Id

\* The two tests the loop of test_plugin_installed makes on one plugin: the
\* Id is the GUID, letter case ignored, or the name is tunnelfin.
guid_match(plugin) == upper(plugin.Id) = upper(TUNNELFIN_PLUGIN_GUID)

name_match(plugin) == lower(plugin.Name) = "tunnelfin"

\* The loop of test_plugin_installed: the index of the first plugin that
\* passes one of the two tests (the loop breaks there), 0 for None.
selected_plugin(plugins) ==
    IF \E i \in 1..Len(plugins) : guid_match(plugins[i]) \/ name_match(plugins[i])
    THEN CHOOSE i \in 1..Len(plugins) :
            /\ guid_match(plugins[i]) \/ name_match(plugins[i])
            /\ \A j \in 1..(i - 1) :
                  ~(guid_match(plugins[j]) \/ name_match(plugins[j]))
    ELSE 0

\* plugin_id = deployer.find_tunnelfin_plugin() on one answer of the host.
FindTunnelfinPlugin ==
    /\ \E plugins \in ListedAnswers :
          llast' = [kind |-> "find", plugins |-> plugins,
                    id |-> find_tunnelfin_plugin(plugins)]
    /\ UNCHANGED <<mvars, vvars, cvars, pvars, dvars, rvars, svars, evars>>

\* The selection of test_plugin_installed on one answer of the host.
TestPluginInstalled ==
    /\ \E plugins \in ListedAnswers :
          llast' = [kind |-> "test", plugins |-> plugins,
                    tunnelfin |-> selected_plugin(plugins)]
    /\ UNCHANGED <<mvars, vvars, cvars, pvars, dvars, rvars, svars, evars>>

InitLookup ==
    /\ llast = NoCall
    /\ ManifestIdle
    /\ VersionIdle
    /\ CdnIdle
    /\ PollIdle
    /\ DeployIdle
    /\ RepoIdle
    /\ SessionIdle
    /\ SuiteIdle

NextLookup == FindTunnelfinPlugin \/ TestPluginInstalled

SpecLookup == InitLookup /\ [][NextLookup]_vars

(***************************************************************************)
(*                       The deployer's session                            *)
(***************************************************************************)

\* The access tokens a host may issue.
Tokens == {"t1", "t2"}

\* The parts of _get_auth_header that do not depend on the token, joined.
AuthParts ==
    "MediaBrowser Client=\"TunnelFin Build\", Device=\"Build Script\", "
    \o "DeviceId=\"build-script\", Version=\"1.0.0\""

\* _get_auth_header: the Token part is appended if self.access_token.
get_auth_header(token) ==
    IF truthy(token) THEN AuthParts \o ", Token=\"" \o token \o "\"" ELSE AuthParts

\* What the "User" member of the answer may be: missing, null, an object.
Users == {[kind |-> "absent"], [kind |-> "null"], [kind |-> "object", Id |-> "u1"]}

\* The body of an answer: no JSON, a JSON array, a JSON object with or
\* without "AccessToken" and "User".
Bodies ==
    {[kind |-> "text"], [kind |-> "array"]}
    \cup {[kind |-> "object", AccessToken |-> a, User |-> u] :
            a \in Tokens \cup {"absent"}, u \in Users}

\* How the POST of /Users/AuthenticateByName may end: an exception of
\* requests, or an answer with a status and a body.
AuthAnswers ==
    {[kind |-> "exception"]}
    \cup {[kind |-> "http", status |-> st, body |-> b] : st \in {200, 401}, b \in Bodies}

\* response.raise_for_status(), response.json() and data.get go through:
\* the answer has a status below 400 and its body is a JSON object.
is_object(answer) ==
    /\ answer.kind = "http"
    /\ answer.status < 400
    /\ answer.body.kind = "object"

\* data.get("AccessToken")
get_AccessToken(body) == IF body.AccessToken = "absent" THEN "None" ELSE body.AccessToken

\* data.get("User", {}).get("Id") raises AttributeError when "User" is null.
User_Id_raises(body) == body.User.kind = "null"

User_Id(body) == IF body.User.kind = "object" THEN body.User.Id ELSE "None"

\* authenticate(): the header is set from the token held, the POST is made,
\* then access_token, user_id and the header are assigned in that order; an
\* exception at any point returns False with what was assigned before it.
authenticate(answer) ==
    LET parsed == is_object(answer)
        ok == parsed /\ ~User_Id_raises(answer.body)
    IN
    /\ access_token' = IF parsed THEN get_AccessToken(answer.body) ELSE access_token
    /\ user_id' = IF ok THEN User_Id(answer.body) ELSE user_id
    /\ session_header' = IF ok THEN get_auth_header(access_token')
                         ELSE get_auth_header(access_token)
    /\ alast' = [kind |-> "authenticate", answer |-> answer,
                 result |-> IF ok THEN "True" ELSE "False",
                 before |-> access_token]

\* re_authenticate(): as authenticate, without user_id.
re_authenticate(answer) ==
    LET ok == is_object(answer) IN
    /\ access_token' = IF ok THEN get_AccessToken(answer.body) ELSE access_token
    /\ session_header' = IF ok THEN get_auth_header(access_token')
                         ELSE get_auth_header(access_token)
    /\ alast' = [kind |-> "re_authenticate", answer |-> answer,
                 result |-> IF ok THEN "True" ELSE "False",
                 before |-> access_token]
    /\ UNCHANGED user_id

\* deployer.authenticate(), the first call on a new JellyfinDeployer.
Authenticate ==
    /\ alast = NoCall
    /\ \E answer \in AuthAnswers : authenticate(answer)
    /\ UNCHANGED <<mvars, vvars, cvars, pvars, dvars, rvars, lvars, evars>>

\* deployer.re_authenticate(), which the deploys call after authenticate
\* returned True.
ReAuthenticate ==
    /\ \/ alast.kind = "re_authenticate"
       \/ alast.kind = "authenticate" /\ alast.result = "True"
    /\ \E answer \in AuthAnswers : re_authenticate(answer)
    /\ UNCHANGED <<mvars, vvars, cvars, pvars, dvars, rvars, lvars, evars>>

InitSession ==
    /\ SessionIdle
    /\ SuiteIdle
    /\ ManifestIdle
    /\ VersionIdle
    /\ CdnIdle
    /\ PollIdle
    /\ DeployIdle
    /\ RepoIdle
    /\ LookupIdle
    /\ SuiteIdle

NextSession == Authenticate \/ ReAuthenticate

SpecSession == InitSession /\ [][NextSession]_vars

(***************************************************************************)
(*                           The E2E suite                                 *)
(***************************************************************************)

\* The members of TestResult.
TestResults == {"PASSED", "FAILED", "SKIPPED", "WARNING"}

\* A test of the suite: the name of its TestCase and the results its body
\* assigns.
Test(name, results) == [name |-> name, results |-> results]

test_server_connection == Test("Server Connection", {"PASSED", "FAILED"})

test_authentication == Test("User Authentication", {"PASSED", "FAILED"})

\* The tests run_all_tests adds after the authentication, in its order.
LaterTests ==
    << Test("TunnelFin Plugin Installation", {"PASSED", "FAILED", "WARNING"}),
       Test("TunnelFin Plugin Configuration", {"PASSED", "FAILED", "WARNING"}),
       Test("Prowlarr Connectivity", TestResults),
       Test("Configure Prowlarr Integration", {"PASSED", "FAILED", "SKIPPED"}),
       Test("TunnelFin Channel Discovery", {"PASSED", "FAILED"}),
       Test("TunnelFin Channel Features", TestResults),
       Test("TunnelFin Channel Search ('big buck bunny')", {"PASSED", "FAILED", "WARNING"}),
       Test("TunnelFin Channel Search ('sintel')", {"PASSED", "FAILED", "WARNING"}),
       Test("Global Search Integration", {"PASSED", "FAILED", "WARNING"}),
       Test("Search Page HTML Endpoint", {"PASSED", "FAILED", "WARNING"}),
       Test("Plugin Configuration Pages", TestResults),
       Test("Network Status Endpoint", {"PASSED", "FAILED", "WARNING"}),
       Test("TMDB Metadata Enrichment ('inception')", {"PASSED", "FAILED", "WARNING"}),
       Test("Search Results Network Indicator ('big buck bunny')", {"PASSED", "FAILED", "WARNING"}),
       Test("Channel Search Help Category", TestResults),
       Test("Log Analysis for TunnelFin Errors", {"PASSED", "WARNING"}) >>

\* add_result(test): self.test_cases.append(test).
add_result(name, result) ==
    /\ enames' = Append(enames, name)
    /\ elast' = result
    /\ etally' = [etally EXCEPT ![result] = @ + 1]

\* if self.test_cases[-1].result == TestResult.PASSED
authentication_succeeded(result) == result = "PASSED"

\* An overall result that is PASSED whatever failed.
overall_always_passed(failed) == "PASSED"

\* overall = "PASSED" if failed == 0 else "FAILED"
overall(failed) == IF failed = 0 THEN "PASSED" ELSE "FAILED"

\* sys.exit(0 if results["failed"] == 0 else 1)
exit_code(results) == IF results.failed = 0 THEN "0" ELSE "1"

\* self.add_result(self.test_server_connection())
TestServerConnection ==
    /\ epc = "test_server_connection"
    /\ \E result \in test_server_connection.results :
          add_result(test_server_connection.name, result)
    /\ epc' = "test_authentication"
    /\ UNCHANGED <<enext, eresults, eexit>>
    /\ UNCHANGED <<mvars, vvars, cvars, pvars, dvars, rvars, lvars, svars>>

\* self.add_result(self.test_authentication()), and the test of the result
\* of the last case that follows it.
TestAuthentication ==
    /\ epc = "test_authentication"
    /\ \E result \in test_authentication.results :
          add_result(test_authentication.name, result)
    /\ epc' = IF authentication_succeeded(elast') THEN "later" ELSE "summary"
    /\ UNCHANGED <<enext, eresults, eexit>>
    /\ UNCHANGED <<mvars, vvars, cvars, pvars, dvars, rvars, lvars, svars>>

\* One self.add_result(self.test_...()) of the branch.
TestLater ==
    /\ epc = "later"
    /\ \E result \in LaterTests[enext].results :
          add_result(LaterTests[enext].name, result)
    /\ enext' = enext + 1
    /\ epc' = IF enext = Len(LaterTests) THEN "summary" ELSE "later"
    /\ UNCHANGED <<eresults, eexit>>
    /\ UNCHANGED <<mvars, vvars, cvars, pvars, dvars, rvars, lvars, svars>>

\* The summary of run_all_tests: the four sums, overall, the returned dict.
Summary ==
    /\ epc = "summary"
    /\ eresults' = [passed |-> etally.PASSED, failed |-> etally.FAILED,
                    warnings |-> etally.WARNING, skipped |-> etally.SKIPPED,
                    total |-> Len(enames), overall |-> overall(etally.FAILED)]
    /\ epc' = "main"
    /\ UNCHANGED <<enext, enames, elast, etally, eexit>>
    /\ UNCHANGED <<mvars, vvars, cvars, pvars, dvars, rvars, lvars, svars>>

\* main: the results are saved, then sys.exit.
Exit ==
    /\ epc = "main"
    /\ eexit' = exit_code(eresults)
    /\ epc' = "exited"
    /\ UNCHANGED <<enext, enames, elast, etally, eresults>>
    /\ UNCHANGED <<mvars, vvars, cvars, pvars, dvars, rvars, lvars, svars>>

\* main has created the client and the suite and calls run_all_tests.
InitSuite ==
    /\ epc = "test_server_connection"
    /\ enext = 1
    /\ enames = <<>>
    /\ elast = "none"
    /\ etally = EmptyTally
    /\ eresults = NoCall
    /\ eexit = "none"
    /\ ManifestIdle
    /\ VersionIdle
    /\ CdnIdle
    /\ PollIdle
    /\ DeployIdle
    /\ RepoIdle
    /\ LookupIdle
    /\ SessionIdle

NextSuite ==
    TestServerConnection \/ TestAuthentication \/ TestLater \/ Summary \/ Exit

SpecSuite == InitSuite /\ [][NextSuite]_vars

(***************************************************************************)
(*                          Properties                                     *)
(***************************************************************************)

IsPrefix(s, t) ==
    /\ Len(s) <= Len(t)
    /\ \A i \in 1..Len(s) : s[i] = t[i]

\* The index in dtrace of the first find_tunnelfin_plugin, 0 before it.
FindAt ==
    IF \E i \in 1..Len(dtrace) : dtrace[i].call = "find_tunnelfin_plugin"
    THEN CHOOSE i \in 1..Len(dtrace) :
            /\ dtrace[i].call = "find_tunnelfin_plugin"
            /\ \A j \in 1..(i - 1) : dtrace[j].call # "find_tunnelfin_plugin"
    ELSE 0

\* The index in dtrace of the first wait_for_plugin_version, the end of dtrace
\* before it.
VerifyAt ==
    IF \E i \in 1..Len(dtrace) : dtrace[i].call = "wait_for_plugin_version"
    THEN CHOOSE i \in 1..Len(dtrace) : dtrace[i].call = "wait_for_plugin_version"
    ELSE Len(dtrace)

\* The host calls between the discovery and the verification, the latter
\* included.
HostCalls == SubSeq(dtrace, FindAt + 1, VerifyAt)

Names(calls) == [i \in 1..Len(calls) |-> calls[i].call]

\* The teardown phase and the install phase, given whether the host became
\* healthy after the restart.
TeardownCalls(healthy) ==
    <<"uninstall_plugin", "restart_server", "wait_for_server">>
    \o (IF healthy THEN <<"re_authenticate", "wait_for_plugin_state">> ELSE <<>>)

InstallCalls(healthy) ==
    <<"install_plugin", "restart_server", "wait_for_server">>
    \o (IF healthy THEN <<"re_authenticate">> ELSE <<>>)
    \o <<"wait_for_plugin_version">>

DeployCalls(found, healthy1, healthy2) ==
    (IF found THEN TeardownCalls(healthy1) ELSE <<>>) \o InstallCalls(healthy2)

\* The wait_for_server results of the calls are healthy1 (teardown) and
\* healthy2 (install).
HealthAs(calls, found, healthy1, healthy2) ==
    \A i \in 1..Len(calls) :
        calls[i].call = "wait_for_server" =>
            (calls[i].result = "True") = (IF found /\ i = 3 THEN healthy1 ELSE healthy2)

\* C1 as stated: after the discovery the host calls are, if and only if a
\* prior installation was reported, uninstall, restart, wait-for-healthy,
\* re-authenticate, wait-for-plugin-state, and then in every run install,
\* restart, wait-for-healthy, re-authenticate, wait-for-plugin-version.
C1_AsClaimed ==
    dmode = "local" /\ FindAt # 0 /\ dtrace[FindAt].result # "raised" =>
        IsPrefix(Names(HostCalls), DeployCalls(truthy(dtrace[FindAt].result), TRUE, TRUE))

\* C1: after the discovery the host calls of deploy_local are, if and only if
\* find_tunnelfin_plugin returned an id, uninstall, restart, wait-for-healthy
\* and, only when that wait succeeded, re-authenticate and wait-for-plugin-state;
\* then install, restart, wait-for-healthy, re-authenticate only when that
\* wait succeeded, and then wait-for-plugin-version.  A run is a prefix of
\* that sequence, it is cut short only by a call that raised, and without a
\* reported installation it makes no uninstall.
C1_DeployOrder ==
    dmode = "local" /\ FindAt # 0 /\ dtrace[FindAt].result # "raised" =>
        LET found == truthy(dtrace[FindAt].result)
            calls == HostCalls
            names == Names(calls)
        IN
        /\ \E healthy1, healthy2 \in BOOLEAN :
              /\ HealthAs(calls, found, healthy1, healthy2)
              /\ IsPrefix(names, DeployCalls(found, healthy1, healthy2))
        /\ dpc = "done" => dtrace[VerifyAt].call = "wait_for_plugin_version"
        /\ dpc = "raised" => dtrace[Len(dtrace)].result = "raised"
        /\ ~found => \A i \in 1..Len(calls) : calls[i].call # "uninstall_plugin"

\* A run with a prior installation whose host did not come back after the
\* teardown restart and did after the install restart, verified.
C1_Witness ==
    /\ dmode = "local"
    /\ dpc = "done"
    /\ FindAt # 0
    /\ truthy(dtrace[FindAt].result)
    /\ Names(HostCalls) = DeployCalls(TRUE, FALSE, TRUE)
    /\ HostCalls[3].result = "False"
    /\ HostCalls[Len(HostCalls)].result = "True"

Versions == manifest[1].versions

Present(versions, version) ==
    \E i \in 1..Len(versions) : versions[i].version = version

\* C2: upserting a version string that is already present never adds an entry,
\* and after update_manifest(V, C1) followed by update_manifest(V, C2) the
\* channel holds exactly one entry whose version is V, with checksum C2
\* (C2 equal to C1 or not).
C2_UpsertExistingAddsNothing ==
    mlast.kind = "update" =>
        /\ Present(mlast.before, mlast.version) =>
                Len(Versions) = Len(mlast.before)
        /\ (mprev.kind = "update" /\ mprev.version = mlast.version) =>
                /\ Count(Versions, mlast.version) = 1
                /\ Len(Versions) = Len(mlast.before)
                /\ \A i \in 1..Len(Versions) :
                      Versions[i].version = mlast.version =>
                          Versions[i].checksum = mlast.checksum

\* Two upserts of one version with different checksums have been made.
C2_Witness ==
    /\ mlast.kind = "update" /\ mprev.kind = "update"
    /\ mprev.version = mlast.version
    /\ mprev.checksum = "c1" /\ mlast.checksum = "c2"
    /\ Count(Versions, mlast.version) = 1
    /\ Len(Versions) = 3

\* C3: upserting a version string that is not present puts the new entry at
\* index 0 and leaves every prior entry unchanged and in its prior order,
\* whatever the numeric relation of the new version to the existing ones.
C3_NewVersionIsPrepended ==
    (mlast.kind = "update" /\ ~Present(mlast.before, mlast.version)) =>
        /\ Len(Versions) = Len(mlast.before) + 1
        /\ Versions[1].version = mlast.version
        /\ Versions[1].checksum = mlast.checksum
        /\ Tail(Versions) = mlast.before

\* A numerically lower version has been put in front of a higher one.
C3_Witness ==
    /\ mlast.kind = "update"
    /\ mlast.version = "2.0.0.4"
    /\ mlast.before # <<>>
    /\ ~Present(mlast.before, "2.0.0.4")
    /\ mlast.before[1].version = "2.0.0.5"
    /\ Versions[1].version = "2.0.0.4"
    /\ Versions[2].version = "2.0.0.5"

\* C4: starting from a channel in which every version string occurs at most
\* once, after any sequence of update_manifest calls every version string
\* still occurs in at most one entry.
C4_OneEntryPerVersion == UniqueVersions(Versions)

\* Several updates later the channel holds every version string, once each.
C4_Witness ==
    /\ mlast.kind = "update" /\ mprev.kind = "update"
    /\ Present(mlast.before, mlast.version)
    /\ Len(Versions) = Cardinality(VersionStrings)
    /\ \A v \in VersionStrings : Count(Versions, v) = 1

\* ---- the resolver's claims ----

Listed(call) == listing(call.gitOk, call.ghOk, call.tags, call.rels)

IsNumber(field) ==
    /\ field # <<>>
    /\ \A i \in 1..Len(field) :
          field[i] \in {"0", "1", "2", "3", "4", "5", "6", "7", "8", "9"}

\* A tag of the form vMAJOR[.MINOR[.PATCH[.BUILD]]], as far as the resolver
\* reads it (the first four fields).
WellFormed(tag) ==
    /\ tag.marker > 0
    /\ \A i \in 1..Len(tag.fields) : i <= 4 => IsNumber(tag.fields[i])

Malformed(tag) == tag.marker > 0 /\ ~WellFormed(tag)

\* The version of a well-formed tag as a 4-tuple, missing components zero.
Value4(fields) ==
    [i \in 1..4 |-> IF i <= Len(fields) THEN int(fields[i]) ELSE 0]

Less4(a, b) ==
    \E k \in 1..4 : (\A i \in 1..(k - 1) : a[i] = b[i]) /\ a[k] < b[k]

HistoryVersions(tags) == {Value4(t.fields) : t \in {x \in tags : WellFormed(x)}}

VersionText(numbers) == [i \in 1..4 |-> str(numbers[i])]

Expected(listed) ==
    LET history == HistoryVersions(listed) IN
    IF history = {} THEN <<1, 0, 0, 0>>
    ELSE LET latest == CHOOSE m \in history : \A x \in history : ~Less4(m, x)
         IN [i \in 1..4 |-> IF i = 4 THEN latest[i] + 1 ELSE latest[i]]

SpecExample ==
    {Tag(1, <<1, 2, 3, 4>>), Tag(1, <<1, 2, 3, 9>>), Tag(1, <<1, 3, 0, 0>>)}

C6_MalformedTagsAreDiscarded ==
    vlast.kind = "resolve" =>
        vlast.version = next_version({t \in Listed(vlast) : ~Malformed(t)})

RecordedBefore(j) ==
    \A i \in 1..(j - 1) : release_tag(resolved[i].version) \in resolved[j].tags

C8_AsClaimed ==
    ~(clog.hit /\ clog.fetchEnd * 10 < cargs.timeout * 6) =>
        /\ clog.nhead = 0
        /\ cpc = "done" => cresult = FALSE

\* C8: no asset HEAD is issued unless a preceding manifest fetch of phase 1,
\* begun before 60% of the timeout had elapsed, succeeded (a 200 whose first
\* entry has the expected checksum), whenever its answer arrived; when no
\* phase-1 fetch does, the verifier returns failure and has issued no HEAD.
C8_NoHeadWithoutManifest ==
    /\ clog.nhead > 0 =>
          /\ cready
          /\ clog.hit
          /\ FirstChecksumIs(clog.accepted, cargs.expected)
          /\ clog.fetchStart * 10 < cargs.timeout * 6
    /\ (cpc = "done" /\ ~clog.hit) =>
          /\ cresult = FALSE
          /\ clog.nhead = 0

\* Phase 1 ran out after several fetches, none with the expected checksum.
C8_Witness ==
    /\ cpc = "done"
    /\ ~clog.hit
    /\ clog.nfetch >= 3
    /\ cresult = FALSE
    /\ clog.nhead = 0

\* C9: the verifier returns success if and only if a manifest fetch of
\* phase 1 returned a channel whose first entry has the expected checksum and
\* afterwards an asset HEAD returned 200.  When the manifest matches only on
\* its 3rd fetch, the asset answers 200 on its 1st HEAD and the timeout covers
\* the three fetches (the third has returned before the timeout is over),
\* the verifier returns success.
C9_SuccessIffBothPhases ==
    /\ clog.nhead > 0 => clog.hit
    /\ cpc = "done" =>
          /\ cresult \in BOOLEAN
          /\ cresult = TRUE <=>
                /\ clog.hit
                /\ FirstChecksumIs(clog.accepted, cargs.expected)
                /\ clog.head = Http(200, <<>>)
          /\ ( /\ clog.nfetch = 3
               /\ clog.first3 = <<FALSE, FALSE, TRUE>>
               /\ clog.firstHead \in {NoResponse, Http(200, <<>>)}
               /\ clog.fetchEnd < cargs.timeout ) => cresult = TRUE

\* The manifest matched on the 3rd fetch, the first HEAD answered 200.
C9_Witness ==
    /\ cpc = "done"
    /\ cresult = TRUE
    /\ clog.nfetch = 3
    /\ clog.first3 = <<FALSE, FALSE, TRUE>>
    /\ clog.nhead = 1
    /\ clog.firstHead = Http(200, <<>>)

\* ---- the polls' claims ----

\* An installed-plugin list that shows a plugin of that name (letter case
\* ignored) with exactly that Version string and Status 'Active'.
ShowsActiveVersion(obs, name, version) ==
    /\ obs.kind = "plugins"
    /\ \E i \in DOMAIN obs.plugins :
          LET p == obs.plugins[i] IN
          /\ lower(p.Name) = lower(name)
          /\ p.Version = version
          /\ p.Status = "Active"

\* C10: wait_for_plugin_version returns success only if a poll observed a
\* plugin of that name (case-insensitive) whose Version equals the target
\* string exactly and whose Status is 'Active'; the right version with a
\* non-active status, or an active plugin of another version, never
\* satisfies it.
C10_VersionPollNeedsActiveVersion ==
    (pargs.kind = "version" /\ ppc = "done" /\ presult = "True") =>
        /\ ShowsActiveVersion(plog.obs, pargs.name, pargs.expected)
        /\ \E i \in DOMAIN plog.obs.plugins :
              /\ plog.obs.plugins[i].Name \in {"TunnelFin", "tunnelfin"}
              /\ plog.obs.plugins[i].Version = "3.1.0.2"
              /\ plog.obs.plugins[i].Status = "Active"

\* The poll went on after a list with the right version not yet active, and
\* returned success on a later list with it active under a lower-case name.
C10_Witness ==
    /\ pargs.kind = "version"
    /\ ppc = "done"
    /\ presult = "True"
    /\ plog.npolls = 2
    /\ plog.obs.plugins =
          <<[Name |-> "TunnelFin", Version |-> "3.1.0.2", Status |-> "Restart"],
            [Name |-> "tunnelfin", Version |-> "3.1.0.2", Status |-> "Active"]>>

\* The indices of the elements of a fetched list that carry the name, letter
\* case ignored.
Named(obs, name) ==
    {i \in DOMAIN obs.plugins : lower(obs.plugins[i].Name) = lower(name)}

\* The success predicate of wait_for_plugin_state on one observation: the
\* list was fetched and, for "Deleted", no element carries the name; for
\* another state, the first element that carries the name has that Status.
ShowsState(obs, name, expected) ==
    /\ obs.kind = "plugins"
    /\ IF expected = "Deleted"
       THEN Named(obs, name) = {}
       ELSE /\ Named(obs, name) # {}
            /\ \E i \in Named(obs, name) :
                  /\ \A j \in Named(obs, name) : i <= j
                  /\ obs.plugins[i].Status = expected

\* C11: wait_for_plugin_state returns success on an attempt exactly when its
\* observation is a fetched list in which, for the expected state "Deleted",
\* the named plugin is absent and, for any other expected state, the named
\* plugin is present with exactly that Status; an attempt whose fetch failed
\* satisfies neither.
C11_StatePredicate ==
    pargs.kind = "state" =>
        /\ ppc = "done" => (presult = "True" => ShowsState(plog.obs, pargs.name, pargs.expected))
        /\ ppc = "sleep" => ~ShowsState(plog.obs, pargs.name, pargs.expected)
        /\ (plog.npolls > 0 /\ plog.obs = Raised) => (ppc = "done" => presult = "False")

\* "Deleted" was reached on a list that holds another plugin only, after an
\* attempt that saw the plugin still listed.
C11_Witness ==
    /\ pargs.kind = "state"
    /\ pargs.expected = "Deleted"
    /\ ppc = "done"
    /\ presult = "True"
    /\ plog.npolls = 2
    /\ plog.obs.kind = "plugins"
    /\ Len(plog.obs.plugins) = 1
    /\ plog.obs.plugins[1].Name = "Other"

\* The predicate of each poll on one observation.
Satisfies(args, obs) ==
    CASE args.kind = "server" -> obs.kind = "http" /\ obs.status = 200
      [] args.kind = "state" -> ShowsState(obs, args.name, args.expected)
      [] args.kind = "version" -> ShowsActiveVersion(obs, args.name, args.expected)

\* What C12 says of a state of a poll.
PollOutcome ==
    /\ (ppc = "done" /\ presult = "True") => Satisfies(pargs, plog.obs)
    /\ (ppc \in {"sleep", "loop"} /\ plog.npolls > 0) => ~Satisfies(pargs, plog.obs)
    /\ (ppc = "done" /\ presult = "False") =>
          /\ pnow >= pargs.timeout
          /\ plog.npolls > 0
          /\ ~Satisfies(pargs, plog.obs)
    /\ ( /\ pargs.kind = "state"
         /\ pargs.expected = "Deleted"
         /\ plog.npolls = 1
         /\ plog.obs.kind = "plugins"
         /\ \A i \in DOMAIN plog.obs.plugins :
               plog.obs.plugins[i].Name \notin {"TunnelFin", "tunnelfin"} )
        => (ppc = "done" /\ presult = "True")

\* C12: each convergence poll returns success on the first attempt whose
\* observation satisfies its predicate and makes no request after it (a
\* request is made only inside the loop, before the deadline, and after
\* observations that did not satisfy the predicate), and returns failure only
\* once its timeout has elapsed without a satisfying observation; waiting for
\* "Deleted" succeeds on the first attempt when the plugin is not listed.
C12_PollEndsOnFirstSuccess ==
    /\ []PollOutcome
    /\ [][plog' # plog =>
            /\ ppc = "loop"
            /\ pnow < pargs.timeout
            /\ plog.npolls > 0 => ~Satisfies(pargs, plog.obs)]_vars

\* Waiting for "Deleted" failed after the deadline, the plugin listed at every
\* attempt.
C12_Witness ==
    /\ pargs.kind = "state"
    /\ pargs.expected = "Deleted"
    /\ ppc = "done"
    /\ presult = "False"
    /\ plog.npolls >= 2
    /\ pnow >= pargs.timeout
    /\ plog.obs.kind = "plugins"
    /\ Named(plog.obs, "TunnelFin") # {}

\* An attempt that ended in a network, HTTP or parse error.
AttemptError(obs) ==
    \/ obs.kind = "exception"
    \/ obs.kind = "http" /\ obs.status # 200

\* What C20 says of a state: a poll is in its loop, waiting for an answer,
\* asleep or over, and it is over with failure only at its deadline.
ErrorsEndNothing ==
    /\ ppc \in {"idle", "loop", "hung", "sleep", "done"}
    /\ cpc \in {"idle", "purge", "phase1", "sleep1", "phase2", "sleep2", "done"}
    /\ (ppc = "done" /\ presult = "False") => pnow >= pargs.timeout
    /\ (cpc = "done" /\ cresult = FALSE) =>
          IF cready THEN cnow >= cargs.timeout ELSE cnow * 10 >= cargs.timeout * 6

\* C20: in every convergence poll an attempt that ends in a network, HTTP or
\* parse error is followed by the sleep of the fixed interval and by the loop
\* test, never by the end of the poll or by an exception in the caller; the
\* poll fails only once its deadline has passed.
C20_ErrorsAreNotYetReady ==
    /\ []ErrorsEndNothing
    /\ [][ /\ (plog' # plog /\ AttemptError(plog'.obs)) => ppc' = "sleep"
           /\ ppc = "sleep" => (ppc' = "loop" /\ pnow' = pnow + 2)
           /\ (cpc = "phase1" /\ clog' # clog /\ clog'.fetchFailed) => cpc' = "sleep1"
           /\ cpc = "sleep1" => (cpc' = "phase1" /\ cnow' = cnow + 2)
           /\ (cpc = "phase2" /\ clog' # clog /\ AttemptError(clog'.head)) => cpc' = "sleep2"
           /\ cpc = "sleep2" => (cpc' = "phase2" /\ cnow' = cnow + 2) ]_vars

\* The asset HEAD raised, the verifier slept, asked again and succeeded.
C20_Witness ==
    /\ cpc = "done"
    /\ cresult = TRUE
    /\ clog.nhead = 2
    /\ clog.firstHead = Raised
    /\ clog.head = Http(200, <<>>)

\* ---- the repository registration's claims ----

\* The registrations of a list that are the plugin's: those whose Name holds
\* the expected name.
Ours(list) == {i \in 1..Len(list) : list[i].Name \in {"TunnelFin", "My TunnelFin"}}

IsOther(r) == r.Name \notin {"TunnelFin", "My TunnelFin"}

\* C13: a call of ensure_repository(url) that fetched the list and ran to its
\* end did exactly one of three things: a matching registration with another
\* URL got the URL and Enabled = true, the rest of the list as it was, and the
\* list was written; without a matching registration an enabled registration
\* with the URL was appended and the list was written; with a matching
\* registration that has the URL nothing was written.
C13_EnsureRepositoryCases ==
    (rlast.kind = "ensure" /\ rlast.fetched /\ ~rlast.raised) =>
        LET before == rlast.before
            written == rlast.written
        IN
        IF Ours(before) = {}
        THEN /\ rlast.wrote
             /\ Len(written) = Len(before) + 1
             /\ SubSeq(written, 1, Len(before)) = before
             /\ written[Len(written)].Url = rlast.url
             /\ written[Len(written)].Enabled = TRUE
             /\ repos = written
        ELSE LET i == CHOOSE k \in Ours(before) : \A j \in Ours(before) : k <= j IN
             IF before[i].Url # rlast.url
             THEN /\ rlast.wrote
                  /\ Len(written) = Len(before)
                  /\ written[i].Name = before[i].Name
                  /\ written[i].Url = rlast.url
                  /\ written[i].Enabled = TRUE
                  /\ \A j \in 1..Len(before) : j # i => written[j] = before[j]
                  /\ repos = written
             ELSE /\ ~rlast.wrote
                  /\ repos = before

\* A disabled registration with another URL was updated, next to another
\* repository's registration.
C13_Witness ==
    /\ rlast.kind = "ensure"
    /\ rlast.wrote
    /\ Len(rlast.before) = 2
    /\ Ours(rlast.before) = {2}
    /\ rlast.before[2].Enabled = FALSE
    /\ rlast.before[2].Url # rlast.url
    /\ repos[2].Enabled = TRUE
    /\ repos[2].Url = rlast.url

\* C14: ensure_repository is idempotent and never duplicates: a call leaves
\* the host with at most one registration of the plugin's repository when it
\* found at most one (and never with more than it found, one apart), a call
\* with the URL of the completed call before it writes nothing, and every
\* written list carries the other repositories' registrations unchanged and
\* in order.
C14_EnsureRepositoryIdempotent ==
    (rlast.kind = "ensure" /\ rlast.fetched) =>
        /\ Cardinality(Ours(rlast.before)) <= 1 => Cardinality(Ours(repos)) <= 1
        /\ Cardinality(Ours(rlast.before)) >= 1 =>
              Cardinality(Ours(repos)) = Cardinality(Ours(rlast.before))
        /\ rlast.again => (~rlast.wrote /\ ~rlast.raised /\ repos = rlast.before)
        /\ rlast.wrote =>
              SelectSeq(rlast.written, IsOther) = SelectSeq(rlast.before, IsOther)

\* A second call with the same URL, after a call that completed, wrote
\* nothing; the host holds the plugin's registration once, next to another.
C14_Witness ==
    /\ rcalls = 2
    /\ rlast.kind = "ensure"
    /\ rlast.fetched
    /\ rlast.again
    /\ ~rlast.wrote
    /\ Len(repos) = 2
    /\ Cardinality(Ours(repos)) = 1

\* ---- the deploy's error handling ----

\* The call a position of the deploy is about to make.
PcCall(pc) ==
    CASE pc \in {"restart_server_1", "restart_server_2"} -> "restart_server"
      [] pc \in {"wait_for_server_1", "wait_for_server_2"} -> "wait_for_server"
      [] pc \in {"re_authenticate_1", "re_authenticate_2"} -> "re_authenticate"
      [] pc = "final_find" -> "find_tunnelfin_plugin"
      [] pc = "final_get_plugins" -> "get_plugins"
      [] OTHER -> pc

\* What follows the i-th call of the trace: the next call made, or what the
\* deploy is about to do ("done", "exit" and "raised" when it is over).
Following(i) == IF i < Len(dtrace) THEN dtrace[i + 1].call ELSE PcCall(dpc)

HostRequests ==
    {"ensure_repository", "find_tunnelfin_plugin", "get_plugins",
     "uninstall_plugin", "install_plugin", "restart_server"}

\* C15: authenticate is called once and makes one request; when it fails the
\* deploy (deploy_local or deploy_via_repo) exits with status 1, having made
\* no repository, plugin, uninstall, install or restart request.
C15_FailedAuthenticationExits ==
    /\ Cardinality({i \in 1..Len(dtrace) : dtrace[i].call = "authenticate"}) <= 1
    /\ \A i \in 1..Len(dtrace) :
          (dtrace[i].call = "authenticate" /\ dtrace[i].outcome # "success") =>
              /\ dtrace[i].result = "False"
              /\ i = Len(dtrace)
              /\ dpc = "exit"
              /\ \A j \in 1..Len(dtrace) : dtrace[j].call \notin HostRequests
    /\ (dpc = "exit" /\ \E i \in 1..Len(dtrace) : dtrace[i].call = "authenticate") =>
          dtrace[Len(dtrace)].call = "authenticate"

\* deploy_via_repo ended on an authentication the host refused.
C15_Witness ==
    /\ dmode = "repo"
    /\ dpc = "exit"
    /\ Len(dtrace) = 3
    /\ dtrace[3].call = "authenticate"
    /\ dtrace[3].outcome = "http error"

\* C16: re_authenticate returns a boolean for every outcome of its request,
\* True only on success, and whatever it returns the deploy goes on to the
\* poll that follows; it never raises and never ends the run.
C16_ReAuthenticateNeverAborts ==
    \A i \in 1..Len(dtrace) :
        dtrace[i].call = "re_authenticate" =>
            /\ dtrace[i].result \in {"True", "False"}
            /\ dtrace[i].result = "True" <=> dtrace[i].outcome = "success"
            /\ Following(i) \in {"wait_for_plugin_state", "wait_for_plugin_version"}

\* re_authenticate met a connection error and the verification followed.
C16_Witness ==
    \E i \in 1..Len(dtrace) :
        /\ dtrace[i].call = "re_authenticate"
        /\ dtrace[i].outcome = "connection error"
        /\ dtrace[i].result = "False"
        /\ i < Len(dtrace)
        /\ dtrace[i + 1].call = "wait_for_plugin_version"

\* C17: a connection error of the restart request is swallowed:
\* restart_server returns normally, and deploy_local goes on to the health
\* wait that follows (deploy_via_repo, which has none, to its end).
C17_RestartErrorIsSwallowed ==
    \A i \in 1..Len(dtrace) :
        (dtrace[i].call = "restart_server" /\ dtrace[i].outcome = "connection error") =>
            /\ dtrace[i].result = "None"
            /\ Following(i) = IF dmode = "local" THEN "wait_for_server" ELSE "done"

\* The restart request of the install phase was reset, and the health wait
\* followed and succeeded.
C17_Witness ==
    /\ dmode = "local"
    /\ \E i \in 1..Len(dtrace) :
          /\ dtrace[i].call = "restart_server"
          /\ dtrace[i].outcome = "connection error"
          /\ i > 1
          /\ dtrace[i - 1].call = "install_plugin"
          /\ i < Len(dtrace)
          /\ dtrace[i + 1] = Call("wait_for_server", "True")

\* C18: whenever wait_for_plugin_version timed out in deploy_local, the run
\* makes its final read and completes normally, also when the host cannot be
\* reached at that moment.
C18_InconclusiveVerificationIsSoft ==
    (dmode = "local" /\ \E i \in 1..Len(dtrace) :
                            dtrace[i] = Call("wait_for_plugin_version", "False")) =>
        dpc \in {"final_find", "final_get_plugins", "done"}

\* C19: a polling timeout never aborts deploy_local: after a failed CDN
\* verification the deploy goes on to the authentication, after a health wait
\* that timed out to the install trigger (teardown phase) or to the
\* verification (install phase), after a "Deleted" poll that timed out to the
\* install trigger; from the CDN verification on the run exits only on a
\* failed authentication.
C19_TimeoutsDoNotAbort ==
    dmode = "local" =>
        /\ \A i \in 1..Len(dtrace) :
              /\ (dtrace[i].call = "wait_for_cdn_update" /\ dtrace[i].result = "False") =>
                    Following(i) = "authenticate"
              /\ dtrace[i] = Call("wait_for_server", "False") =>
                    Following(i) = IF dtrace[i - 2].call = "uninstall_plugin"
                                   THEN "install_plugin" ELSE "wait_for_plugin_version"
              /\ dtrace[i] = Call("wait_for_plugin_state", "False") =>
                    Following(i) = "install_plugin"
        /\ (dpc = "exit" /\ \E i \in 1..Len(dtrace) :
                                dtrace[i].call = "wait_for_cdn_update") =>
                dtrace[Len(dtrace)].call = "authenticate"

\* The CDN verification failed and the host did not come back after the
\* teardown restart; the install trigger was issued all the same.
C19_Witness ==
    /\ dmode = "local"
    /\ \E i \in 1..Len(dtrace) :
          /\ Len(dtrace) >= i + 7
          /\ dtrace[i].call = "wait_for_cdn_update"
          /\ dtrace[i].result = "False"
          /\ dtrace[i + 4].call = "uninstall_plugin"
          /\ dtrace[i + 6] = Call("wait_for_server", "False")
          /\ dtrace[i + 7].call = "install_plugin"


\* ---- the string forms of a version ----

\* The tag with the leading marker 'v' put in front of it when it has none.
Marked(tag) == [tag EXCEPT !.marker = IF tag.marker = 0 THEN 1 ELSE tag.marker]

\* C26: the same logical version in two string forms counts once:
\* get_next_version returns for a history what it returns for the same
\* history with every version reported in the form 'v<version>', whether a
\* version is listed with the marker, without it, or both.
C26_BothFormsCountOnce ==
    vlast.kind = "resolve" =>
        vlast.version = next_version({Marked(t) : t \in Listed(vlast)})

\* ---- the registration after ensure_repository ----

\* C30: after ensure_repository(url) completed against a host that applies
\* the written list, the host's list holds a registration with the expected
\* name whose URL is url and which is enabled, whatever the list was before.
C30_RegistrationIsEnabled ==
    (rlast.kind = "ensure" /\ rlast.fetched /\ ~rlast.raised) =>
        \E i \in Ours(repos) : repos[i].Url = rlast.url /\ repos[i].Enabled


\* ---- the cache purge ----

\* C27: the cache purge is best-effort and one-shot: one call of the verifier
\* requests it at most once, before phase 1; whether the request raised or was
\* answered, the step that follows is phase 1, the purge decides neither the
\* readiness of the manifest nor the result, and no later step requests it
\* again.
C27_PurgeIsBestEffort ==
    /\ [](cpc # "idle" => clog.purges <= 1)
    /\ [](cpc \in {"phase1", "sleep1", "phase2", "sleep2", "done"} => clog.purges = 1)
    /\ [][cpc = "purge" =>
            (cpc' = "phase1" /\ cready' = cready /\ cresult' = cresult
                /\ clog'.nfetch = 0)]_vars
    /\ [][(cpc \in {"phase1", "sleep1", "phase2", "sleep2"}) =>
            (clog'.purge = clog.purge /\ clog'.purges = clog.purges)]_vars

\* The purge request raised, and the verifier went through both phases and
\* returned success.
C27_Witness ==
    /\ cpc = "done"
    /\ clog.purges = 1
    /\ clog.purge = Raised
    /\ clog.nfetch > 0
    /\ clog.nhead > 0
    /\ cresult = TRUE


\* ---- the termination of the polls ----

\* C21: every request of a poll is bounded by a per-request timeout, so each
\* of wait_for_server, wait_for_plugin_state and wait_for_plugin_version
\* eventually returns, also when the host stops answering.
C21_PollsReturn == <>(ppc = "done")


\* ---- the triggers ----

\* C22: install_plugin returns True exactly when the status of its response
\* is 200 or 204; a response of any other status to the install, the
\* uninstall or the restart request does not end the run: the restart follows
\* the install, the health wait follows the restart in deploy_local, and the
\* deploy prints that the version is active exactly when the verification
\* poll returned True, whatever the triggers were answered.
C22_TriggersAreFireAndForget ==
    /\ \A i \in 1..Len(dtrace) :
          /\ dtrace[i].call = "install_plugin" =>
                /\ dtrace[i].result = "True" <=> dtrace[i].outcome \in {"200", "204"}
                /\ dtrace[i].outcome # "connection error" =>
                      /\ dtrace[i].result \in {"True", "False"}
                      /\ Following(i) = "restart_server"
          /\ (dtrace[i].call = "uninstall_plugin"
                /\ dtrace[i].outcome # "connection error") =>
                Following(i) = IF dmode = "local" THEN "restart_server"
                               ELSE "install_plugin"
          /\ dtrace[i].call = "restart_server" =>
                Following(i) = IF dmode = "local" THEN "wait_for_server" ELSE "done"
    /\ dmode = "local" =>
          ((\E k \in 1..Len(dout) : dout[k] = IsActive)
              <=> \E i \in 1..Len(dtrace) :
                      dtrace[i] = Call("wait_for_plugin_version", "True"))

\* The install request was answered 500 and the restart 'http error'; the
\* deploy went on, and the verification poll found the version active.
C22_Witness ==
    /\ dmode = "local"
    /\ dpc = "done"
    /\ \E i \in 1..Len(dtrace) :
          /\ dtrace[i].call = "install_plugin"
          /\ dtrace[i].outcome = "500"
          /\ dtrace[i].result = "False"
          /\ i + 1 <= Len(dtrace)
          /\ dtrace[i + 1].call = "restart_server"
          /\ dtrace[i + 1].outcome = "http error"
    /\ dtrace[Len(dtrace)] = Call("wait_for_plugin_version", "True")
    /\ dout = <<IsActive, Complete>>

\* ---- the configuration errors ----

\* The steps with an effect outside the build directory: the manifest write,
\* the release, the push, and every request to the CDN or to the host.
Effects ==
    HostRequests \cup
    {"update_manifest", "gh release upload", "gh release create", "git push",
     "wait_for_cdn_update", "authenticate", "re_authenticate",
     "wait_for_server", "wait_for_plugin_state", "wait_for_plugin_version",
     "deploy_to_jellyfin"}

ConfigurationError(s) ==
    \/ s.call = "credentials" /\ s.result = "missing"
    \/ s.call = "which gh" /\ s.result # "0"

\* C23: when a credential is missing, or gh is missing in deploy_local, the
\* run ends at that test with sys.exit(1), and it has made no manifest write,
\* release, push or request before; every such step comes after the tests
\* that passed.
C23_ConfigurationErrorExitsFirst ==
    \A i \in 1..Len(dtrace) :
        /\ ConfigurationError(dtrace[i]) =>
              /\ i = Len(dtrace)
              /\ dpc = "exit"
              /\ \A j \in 1..Len(dtrace) : dtrace[j].call \notin Effects
        /\ dtrace[i].call \in Effects =>
              /\ \E j \in 1..(i - 1) : dtrace[j] = Call("credentials", "present")
              /\ dmode = "local" => \E j \in 1..(i - 1) : dtrace[j] = Call("which gh", "0")

\* deploy_local found gh and no password: it ended after the build, the gh
\* test and the credentials test.
C23_Witness ==
    /\ dmode = "local"
    /\ dpc = "exit"
    /\ Len(dtrace) = 3
    /\ dtrace[2] = Call("which gh", "0")
    /\ dtrace[3] = Call("credentials", "missing")

\* ---- the summary ----

Verified == \E i \in 1..Len(dtrace) : dtrace[i] = Call("wait_for_plugin_version", "True")

\* C28: the summary of deploy_local reports success only when the
\* verification poll confirmed the version active; after an inconclusive
\* verification it reports the run as not verified, with the version and the
\* status the host last showed.
C28_SummaryStatesTheOutcome ==
    (dmode = "local" /\ dpc = "done") =>
        IF Verified
        THEN dout = <<IsActive, Complete>>
        ELSE /\ \A k \in 1..Len(dout) : dout[k] # Complete
             /\ \E k \in 1..Len(dout) : dout[k] \in {StatusLine, NotFound}

\* ---- the digest ----

\* C29: in deploy_local the checksum is computed once, by build_plugin from
\* the zip it has written, and update_manifest and wait_for_cdn_update are
\* given that value; no other step is given a digest.
C29_OneDigest ==
    dmode = "local" =>
        /\ Cardinality({i \in 1..Len(dtrace) : dtrace[i].call = "build_plugin"}) <= 1
        /\ \A i \in 1..Len(dtrace) :
              IF dtrace[i].call \in {"update_manifest", "wait_for_cdn_update"}
              THEN /\ dtrace[1].call = "build_plugin"
                   /\ dtrace[i].checksum = dtrace[1].result
                   /\ dtrace[i].checksum \in Checksums
              ELSE "checksum" \notin DOMAIN dtrace[i]

\* The deploy wrote the manifest entry with the digest c2, verified the CDN
\* against c2, and the host showed the version active.
C29_Witness ==
    /\ dmode = "local"
    /\ dpc = "done"
    /\ dchecksum = "c2"
    /\ \E i, j \in 1..Len(dtrace) :
          /\ dtrace[i] = Digest("update_manifest", "None", "c2")
          /\ dtrace[j] = Digest("wait_for_cdn_update", "True", "c2")
    /\ dtrace[Len(dtrace)] = Call("wait_for_plugin_version", "True")


\* ---- the shape of the manifest ----

\* The shape update_manifest needs: a sequence whose first element is a
\* channel that holds a "versions" sequence.
Shaped(content) == Len(content) > 0 /\ "versions" \in DOMAIN content[1]

\* C24: when manifest.json does not have the required shape, update_manifest
\* fails with an error, substitutes no default structure and leaves the file
\* as it was.
C24_IllShapedManifestIsRejected ==
    (mlast.kind = "update" /\ ~Shaped(mlast.read)) =>
        /\ mlast.raised
        /\ manifest = mlast.read


\* ---- the lookups ----

\* C25: find_tunnelfin_plugin returns the Id of a listed plugin whose name is
\* the target name, letter case ignored, and None when no such plugin is
\* listed; the lookup of the E2E suite selects a plugin whose Id is the GUID
\* whenever one is listed, whatever the place of a plugin that matches by name
\* only.
C25_GuidTakesPrecedence ==
    /\ llast.kind = "find" =>
          IF \E i \in 1..Len(llast.plugins) : name_match(llast.plugins[i])
          THEN \E i \in 1..Len(llast.plugins) :
                  name_match(llast.plugins[i]) /\ llast.id = llast.plugins[i].Id
          ELSE llast.id = "None"
    /\ llast.kind = "test" =>
          ((\E i \in 1..Len(llast.plugins) : guid_match(llast.plugins[i])) =>
              /\ llast.tunnelfin # 0
              /\ guid_match(llast.plugins[llast.tunnelfin]))


\* ---- the deadlines of the verifier ----

\* A step that starts a manifest fetch, and one that starts an asset HEAD.
FetchStarts == clog'.nfetch = clog.nfetch + 1

HeadStarts == clog'.nhead = clog.nhead + 1

\* C31: both deadlines of wait_for_cdn_update are measured from the start
\* taken before the purge request: a manifest fetch starts only while less
\* than 60% of the timeout has elapsed since then and an asset HEAD only
\* while less than the timeout has; an attempt that did not end its phase is
\* followed by a sleep of 2, and only that sleep or the end of the phase
\* before leads to the next attempt.
C31_DeadlinesFromOneStart ==
    /\ [](cpc = "purge" => cnow = 0)
    /\ [][(cpc \in {"purge", "phase1", "sleep1", "phase2", "sleep2"}) =>
            /\ cnow' >= cnow
            /\ FetchStarts =>
                  /\ cpc = "phase1"
                  /\ cnow * 10 < cargs.timeout * 6
                  /\ clog'.fetchStart = cnow
                  /\ cpc' \in {"sleep1", "phase2"}
            /\ HeadStarts =>
                  /\ cpc = "phase2"
                  /\ cnow < cargs.timeout
                  /\ cpc' \in {"sleep2", "done"}
            /\ (cpc' = "phase1" /\ cpc # "phase1") =>
                  \/ cpc = "purge"
                  \/ cpc = "sleep1" /\ cnow' = cnow + 2
            /\ (cpc' = "phase2" /\ cpc # "phase2") =>
                  \/ cpc = "phase1"
                  \/ cpc = "sleep2" /\ cnow' = cnow + 2
            /\ cpc = "sleep1" => cpc' = "phase1"
            /\ cpc = "sleep2" => cpc' = "phase2"]_vars

\* Two manifest fetches and two asset HEADs were made, and the timeout ended
\* phase 2.
C31_Witness ==
    /\ cpc = "done"
    /\ clog.nfetch >= 2
    /\ clog.nhead >= 2
    /\ cresult = FALSE
    /\ cnow >= cargs.timeout


\* ---- the upsert in place ----

\* C32: upserting a version that already exists changes the checksum and the
\* timestamp of that entry and nothing else: the entry keeps its index, its
\* version, changelog, targetAbi and sourceUrl, every other entry is as it
\* was, and the order of the entries is the order before the call.
C32_UpsertInPlace ==
    (mlast.kind = "update" /\ Present(mlast.before, mlast.version)) =>
        LET i == find_entry(mlast.before, mlast.version) IN
        /\ Len(Versions) = Len(mlast.before)
        /\ \A j \in 1..Len(Versions) :
              /\ Versions[j].version = mlast.before[j].version
              /\ Versions[j].changelog = mlast.before[j].changelog
              /\ Versions[j].targetAbi = mlast.before[j].targetAbi
              /\ Versions[j].sourceUrl = mlast.before[j].sourceUrl
              /\ j # i => Versions[j] = mlast.before[j]
        /\ Versions[i].checksum = mlast.checksum
        /\ Versions[i].timestamp = mlast.timestamp

\* An entry behind a numerically lower one was given a new checksum and a
\* new timestamp where it stood.
C32_Witness ==
    /\ mlast.kind = "update"
    /\ mlast.version = "2.0.0.5"
    /\ Len(mlast.before) >= 2
    /\ find_entry(mlast.before, mlast.version) = 2
    /\ mlast.before[1].version = "2.0.0.4"
    /\ mlast.before[2].checksum # mlast.checksum
    /\ mlast.before[2].timestamp # mlast.timestamp
    /\ Versions[2].version = "2.0.0.5"
    /\ Versions[2].checksum = mlast.checksum
    /\ Versions[1] = mlast.before[1]


\* ---- the restart and the health wait after each phase ----

\* A restart_server and then a wait_for_server lie between the calls at
\* indexes from and to of dtrace.
CycleBetween(from, to) ==
    \E k, l \in (from + 1)..(to - 1) :
        /\ k < l
        /\ dtrace[k].call = "restart_server"
        /\ dtrace[l].call = "wait_for_server"

RestartAndWait(modes) ==
    dmode \in modes =>
        \A i \in 1..Len(dtrace) :
            dtrace[i].call = "install_plugin" =>
                /\ \A j \in 1..(i - 1) :
                      dtrace[j].call = "uninstall_plugin" => CycleBetween(j, i)
                /\ dpc = "done" => CycleBetween(i, Len(dtrace) + 1)

\* C33: in deploy_local and in deploy_via_repo, whenever an uninstall was
\* issued a restart and a health wait happen before the install trigger is
\* issued, and in a run that came to its end the install is followed by a
\* restart and a health wait.
C33_CycleAfterEachPhase == RestartAndWait({"local", "repo"})


\* ---- the order of a local deploy ----

Publish == {"gh release upload", "gh release create"}

\* The place of a call among the steps of deploy_local, 0 for a call that is
\* part of one of them.
Stage(call) ==
    CASE call = "update_manifest" -> 1
      [] call \in Publish -> 2
      [] call = "git push" -> 3
      [] call = "wait_for_cdn_update" -> 4
      [] call = "authenticate" -> 5
      [] call = "uninstall_plugin" -> 6
      [] call = "install_plugin" -> 7
      [] call = "wait_for_plugin_version" -> 8
      [] OTHER -> 0

HostTraffic ==
    HostRequests \cup {"authenticate", "re_authenticate", "wait_for_server",
                       "wait_for_plugin_state", "wait_for_plugin_version"}

\* C34: deploy_local makes its steps in the order manifest upsert, publish
\* of the artifact, push of the manifest, CDN verification, authentication,
\* teardown, install, verification, each once at most and all of them but
\* the teardown in a run that came to its end; a request goes to the host
\* only after a publish that returned 0 and the push that followed it and
\* returned 0, and a publish or a push that returned something else is the
\* last step of a run that exits.  The trace only grows, so the formula
\* states of the last call what holds of every call when it is made.
C34_LocalDeployOrder ==
    (dmode = "local" /\ dtrace # <<>>) =>
        LET n == Len(dtrace)
            last == dtrace[n]
            stage == Stage(last.call)
        IN
        /\ stage # 0 =>
              \A j \in 1..(n - 1) : Stage(dtrace[j].call) < stage
        /\ last.call \in HostTraffic =>
              \E k \in 2..(n - 1) :
                  /\ dtrace[k - 1].call \in Publish
                  /\ dtrace[k - 1].result = "0"
                  /\ dtrace[k] = Call("git push", "0")
        /\ \A i \in 1..n :
              (dtrace[i].call \in Publish \cup {"git push"} /\ dtrace[i].result # "0") =>
                  /\ i = n
                  /\ dpc = "exit"
        /\ dpc = "done" =>
              \A s \in {1, 2, 3, 4, 5, 7, 8} :
                  \E i \in 1..n : Stage(dtrace[i].call) = s

\* A local deploy that created the release, tore the old installation down
\* and came to its end.
C34_Witness ==
    /\ dmode = "local"
    /\ dpc = "done"
    /\ \E i \in 1..Len(dtrace) : dtrace[i] = Call("gh release create", "0")
    /\ \A n \in 1..8 : \E i \in 1..Len(dtrace) : Stage(dtrace[i].call) = n


\* ---- the channel after deploy.py ----

\* C35: after any sequence of deploy.py runs, with --version or with the
\* version read from the first entry and incremented, no version string is
\* the version of two entries of the channel.
C35_ScriptKeepsOneEntryPerVersion ==
    \A i \in 1..Len(Versions) : Count(Versions, Versions[i].version) = 1


\* ---- the written manifest and the verifier ----

\* The answer of a host that serves the manifest as it was written.
Served == [kind |-> "http", status |-> 200, body |-> manifest]

\* C36: after update_manifest(V, C) the written manifest passes the phase-1
\* test of wait_for_cdn_update for C, the checksum of the first entry of the
\* channel being C, whatever the channel held before the call.
C36_WrittenManifestIsReady ==
    mlast.kind = "update" => manifest_ready(Served, mlast.checksum)


\* ---- phase 2 after phase 1 ----

\* C37: whenever phase 1 of wait_for_cdn_update succeeded, the verifier has
\* issued at least one asset HEAD when it returns, for every timeout and
\* every latency of a request up to the timeout of one request.
C37_HeadAfterPhase1 ==
    (cpc = "done" /\ cready) => clog.nhead >= 1


\* ---- the session after an authentication ----

\* C38: after every authenticate or re_authenticate call, whether it
\* returned True or False, the authorization header of the session is the
\* header built from the access token held, and a re_authenticate that
\* returned False has left the access token as it was.
C38_HeaderFollowsToken ==
    alast.kind \in {"authenticate", "re_authenticate"} =>
        /\ session_header = get_auth_header(access_token)
        /\ (alast.kind = "re_authenticate" /\ alast.result = "False") =>
              access_token = alast.before


\* ---- the triggers of a local deploy ----

Issued(name) == Cardinality({i \in 1..Len(dtrace) : dtrace[i].call = name})

Authenticated ==
    \E i \in 1..Len(dtrace) :
        dtrace[i].call = "authenticate" /\ dtrace[i].result = "True"

\* C39 as stated: a run of deploy_local that authenticated has, when it is
\* over, issued the uninstall at most once, the install exactly once and the
\* restart at most twice.
C39_AsClaimed ==
    (dmode = "local" /\ Authenticated /\ dpc \in {"done", "exit", "raised"}) =>
        /\ Issued("uninstall_plugin") <= 1
        /\ Issued("install_plugin") = 1
        /\ Issued("restart_server") <= 2

\* C39: a run of deploy_local that authenticated issues the uninstall at
\* most once, the install at most once and the restart at most twice, at
\* most once before the install and at most once after it, whatever the
\* triggers and the polls returned; it has issued the install exactly once
\* when it comes to its end, and a run that issued none was ended by a call
\* that raised.
C39_NoTriggerIsRetried ==
    (dmode = "local" /\ Authenticated) =>
        /\ Issued("uninstall_plugin") <= 1
        /\ Issued("install_plugin") <= 1
        /\ Issued("restart_server") <= 2
        /\ \A i, j \in 1..Len(dtrace) :
              ( /\ i < j
                /\ dtrace[i].call = "restart_server"
                /\ dtrace[j].call = "restart_server" ) =>
                    \E k \in (i + 1)..(j - 1) : dtrace[k].call = "install_plugin"
        /\ dpc = "done" => Issued("install_plugin") = 1
        /\ (dpc \in {"exit", "raised"} /\ Issued("install_plugin") = 0) =>
              /\ dpc = "raised"
              /\ dtrace[Len(dtrace)].result = "raised"

\* A local deploy whose host came back after neither restart and whose
\* verification failed came to its end with one uninstall, one install and
\* two restarts.
C39_Witness ==
    /\ dmode = "local"
    /\ dpc = "done"
    /\ Authenticated
    /\ Issued("uninstall_plugin") = 1
    /\ Issued("install_plugin") = 1
    /\ Issued("restart_server") = 2
    /\ \A i \in 1..Len(dtrace) :
          dtrace[i].call \in {"wait_for_server", "wait_for_plugin_version"} =>
              dtrace[i].result = "False"


\* ---- the outcome of the E2E suite ----

\* C40: the overall result of the suite is PASSED, and the exit code of the
\* process 0, exactly when no recorded case has the result FAILED, whatever
\* the number of WARNING and SKIPPED cases; a test after the authentication
\* is added only when the authentication test PASSED, and when it FAILED the
\* overall result is FAILED with the connection and the authentication
\* cases the only ones recorded.
C40_OverallAndExitCode ==
    /\ [](epc \in {"main", "exited"} =>
            /\ eresults.overall = "PASSED" <=> etally.FAILED = 0
            /\ eresults.total = Len(enames)
            /\ eresults.total = etally.PASSED + etally.FAILED
                                  + etally.WARNING + etally.SKIPPED)
    /\ [](epc = "exited" => (eexit = "0" <=> etally.FAILED = 0))
    /\ [][(epc = "test_authentication" /\ elast' # "PASSED") =>
            /\ epc' = "summary"
            /\ etally'.FAILED >= 1]_vars
    /\ [][Len(enames') > Len(enames) =>
            \/ Len(enames) < 2
            \/ epc = "later"]_vars
    /\ [][(epc = "summary" /\ enext = 1) =>
            /\ enames = <<"Server Connection", "User Authentication">>
            /\ elast = "FAILED"
            /\ eresults'.overall = "FAILED"]_vars
    /\ [](epc = "later" => enames[2] = "User Authentication")

\* Every test was run, some gave WARNING and some SKIPPED, none FAILED: the
\* suite PASSED and the process exited with 0.
C40_Witness ==
    /\ epc = "exited"
    /\ Len(enames) = 2 + Len(LaterTests)
    /\ etally.WARNING >= 1
    /\ etally.SKIPPED >= 1
    /\ etally.FAILED = 0
    /\ eresults.overall = "PASSED"
    /\ eexit = "0"

=============================================================================
